---- MODULE Spec2Model ----
(***************************************************************************)
(* State-machine model of the midi-controller sound engine:                *)
(*   - MidiController (voice registry, settings, mode switch, stop-all),   *)
(*   - PianoSynthesizer (harmonic voice construction, release scheduler),  *)
(*   - Piano (mouse and keyboard note delivery),                           *)
(*   - DrumMachine (percussion pads and the repeater),                     *)
(*   - LoopRecorder (loop capture and playback).                           *)
(*                                                                         *)
(* Units: times in centiseconds (0.01 s), frequencies in centi-hertz,      *)
(* volume in hundredths, repeater periods in milliseconds.                 *)
(*                                                                         *)
(* React state read by a handler is the state of the render the handler    *)
(* was created in.  Handlers bound by JSX props are re-created on every    *)
(* render and read the current state; handlers captured by timers or by    *)
(* an effect with a dependency list keep the state of the render that      *)
(* created them.  Such captured state is modelled explicitly.              *)
(***************************************************************************)
EXTENDS Integers, FiniteSets, Sequences, TLC

\* ------------------------------------------------------------------ bounds
MaxVoices == 2        \* voices constructed in one behaviour
MaxFrameVoices == 1   \* the same, next to the drum machine and the loop recorder
MaxRestore == 1       \* pending emergencyStop restore timers
MaxTimers == 3        \* repeater timers created in one behaviour
MaxPadTimers == 1     \* pending pad-pulse timeouts
MaxRecordings == 2    \* recordings started in one behaviour
MaxSources == 2       \* loop playback sources created in one behaviour
MaxHits == 2          \* percussion hits whose nodes are followed

\* ------------------------------------------------------- program constants
PianoReleaseCeiling == 300   \* Math.min(this.settings.release, 3.0)
OscReleaseCeiling == 200     \* Math.min(audioSettings.release, 2.0)
LinearRampBelow == 10        \* effectiveRelease < 0.1
DecayTime == 10              \* now + this.settings.attack + 0.1
MaxAge == 25                 \* cap on the time a held voice is followed
MaxHitAge == 2500            \* cap on the time a sounding hit is followed, ms
GainFloor == 1                \* targetGain = 0.0001, in ten-thousandths
StopGuard == 10              \* stopTime = now + effectiveRelease + 0.1
NoiseStopDelay == 10         \* noiseNode.stop(now + 0.1)
TeardownGuard == 20          \* setTimeout(..., (effectiveRelease + 0.2) * 1000)
NoiseBelow == 100000         \* if (frequency < 1000)
DefaultVolume == 50          \* volume: 0.5
DefaultAttack == 1           \* attack: 0.01
DefaultRelease == 150        \* release: 1.5
DefaultFilterFreq == 1000    \* filterFreq: 1000
DefaultReverb == 20          \* reverb: 0.2
DefaultRepeatSpeed == 200    \* useState(200)
MinRepeatSpeed == 50         \* Math.max(50, repeatSpeed - 50)
MaxRepeatSpeed == 1000       \* Math.min(1000, repeatSpeed + 50)
SpeedStep == 50              \* repeatSpeed +/- 50
RestoreDelay == 10           \* setTimeout(..., 100) in emergencyStop
PadPulse == 15               \* setTimeout(..., 150) in playDrum
RecordingCeiling == 100      \* if (elapsed >= 10), in tenths of a second
RecordingTickPeriod == 1     \* setInterval(..., 100)

None == 0 - 1                \* "not scheduled" / null

\* ------------------------------------------------------------ input domains
Modes == {"piano", "oscillator"}

\* Two keys of the Piano widget's table (note name -> frequency).
Notes == {"C4", "B5"}
NoteFrequency == [n \in Notes |-> IF n = "C4" THEN 26163 ELSE 98776]

\* Frequencies handed to playNote: the two table entries and two probes at
\* and above the 1000 Hz branch of createPianoSound.
Frequencies == {26163, 98776, 100000, 104650}

\* Knob positions: volume in [0,1], release in [0.01 s, 3 s].
Volumes == {0, 50}
Releases == {5, 150, 300}

\* Attack knob positions, in [0.01 s, 1 s].
Attacks == {1, 10}

\* Steps of audioContext.currentTime between two handlers.
AgeSteps == {5}

\* Steps of ctx.currentTime between two drum handlers, ms.
DrumClockSteps == {250, 500}

\* Release knob positions around the 0.1 s threshold of the ramp choice.
RampReleases == {5, 9, 10, 11, 150, 300}

\* Filter knob positions, in [100 Hz, 8000 Hz].
FilterFreqs == {1000, 4000}

\* min and max of the five ControlKnobs, in the units of audioSettings.
KnobRange == [volume |-> [min |-> 0, max |-> 100],
              attack |-> [min |-> 1, max |-> 100],
              release |-> [min |-> 1, max |-> 300],
              filterFreq |-> [min |-> 100, max |-> 8000],
              reverb |-> [min |-> 0, max |-> 100]]

\* Vertical mouse travel of a drag since its start, in pixels (up positive).
PixelDeltas == {0 - 120, 40, 120}

\* No knob is being dragged.
NoKnob == [name |-> "", start |-> 0]

\* Failure injected into one release: "none", or the gain automation of the
\* voice throws ("gain").
Faults == {"none", "gain"}

\* What a start of a source of a new voice can do: succeed, or throw at one
\* oscillator, or throw at the noise source.
StartFaults == {"oscStart", "noiseStart"}

\* Failures injected into one stopPianoSound call: the gain automation
\* throws ("gain"), the stop of one oscillator throws ("oscStop"), the stop
\* of the noise node throws ("noiseStop"), the gain node throws at every
\* call ("gainAlways").
StopFaults == {"none", "gain", "oscStop", "noiseStop", "gainAlways"}

VARIABLES
    audioContext,       \* MidiController state: AudioContext created (BOOLEAN)
    soundMode,          \* MidiController state
    audioSettings,      \* MidiController state
    filterFrequency,    \* filterRef.current.frequency.value, Hz
    knob,               \* the ControlKnob being dragged: [name, start], name ""
                        \* when none is (isDragging, startValueRef)
    masterGain,         \* masterGainRef.current.gain value
    restoreTimers,      \* pending emergencyStop timeouts, oldest first: captured volume
    synthSettings,      \* PianoSynthesizer.settings
    voices,             \* every voice constructed so far, by creation index
    activePianoNotes,   \* registry, piano mode: note -> voice index
    activeOscillators,  \* registry, oscillator mode: note -> voice index
    pressedKeys,        \* Piano state
    kbd,                \* render state captured by Piano's keyboard listeners
    uncaught,           \* an exception escaped the last handler (BOOLEAN)
    \* DrumMachine
    activeKit,          \* state
    activePad,          \* state: "" is null
    lastPlayedSound,    \* state: "" is null
    isRepeating,        \* state
    repeatSpeed,        \* state, ms
    repeatIntervalRef,  \* ref: id of the interval, 0 is null
    repeatTimers,       \* live intervals: [id, period, sound, pad]
    timersCreated,      \* ids handed out by window.setInterval
    padTimers,          \* pending pad timeouts, oldest first: [sound, pad]
    drumKbdPad,         \* activePad of the render that bound the keydown listener
    toggled,            \* history: toggleRepeat has been called (BOOLEAN)
    hits,               \* followed hits, in order: [sound, outcome, nodes]
    \* LoopRecorder
    isRecording,        \* state
    isPlaying,          \* state
    recordedBuffer,     \* state: recording whose audio it holds, 0 is null
    sourceNodeRef,      \* ref: id of the playback source, 0 is null
    liveSources,        \* playback sources started and connected: [id, buffer]
    sourcesCreated,     \* playback sources created so far
    mediaRecorderRef,   \* ref: recording of the current MediaRecorder, 0 is null
    destinationRef,     \* ref: recording whose capture sink it holds, 0 is null
    recordingTimerRef,  \* ref: elapsed-time interval is set (BOOLEAN)
    elapsed,            \* time the live interval last measured since the start,
                        \* in tenths of a second; 0 without a live interval
    recordings,         \* recordings by index: [state, stoppedBy], state one of
                        \* "recording", "decoding", "done" (decoded),
                        \* "undecoded" (decode failed), "failed" (never started)
    sinks,              \* capture sinks connected to the master gain
    clearedAt,          \* history only: how many recordings had been started
                        \* when clearRecording last ran, None before it ran
    stoppedBeside       \* history: stopAllNotes released a voice while the
                        \* repeater was active and the loop was playing

voiceVars == <<audioContext, soundMode, audioSettings, masterGain, filterFrequency, knob,
               restoreTimers,
               synthSettings, voices, activePianoNotes, activeOscillators,
               pressedKeys, kbd>>

midiVars == <<voiceVars, uncaught>>

repeaterVars == <<isRepeating, repeatSpeed, repeatIntervalRef, repeatTimers, lastPlayedSound>>

drumVars == <<activeKit, activePad, timersCreated, padTimers, drumKbdPad, toggled, hits,
              repeaterVars>>

loopStateVars == <<isRecording, isPlaying, recordedBuffer, sourceNodeRef>>

loopVars == <<loopStateVars, liveSources, sourcesCreated, mediaRecorderRef,
              destinationRef, recordingTimerRef, elapsed, recordings, sinks, clearedAt>>

vars == <<midiVars, drumVars, loopVars, stoppedBeside>>

\* ------------------------------------------------------------------ helpers
Min(a, b) == IF a < b THEN a ELSE b

Max(a, b) == IF a > b THEN a ELSE b

Remove(f, k) == [x \in (DOMAIN f) \ {k} |-> f[x]]

Put(f, k, v) == [x \in (DOMAIN f) \cup {k} |-> IF x = k THEN v ELSE f[x]]

\* The refs masterGainRef.current and pianoSynthRef.current are assigned by
\* initializeAudio together with the AudioContext; a ref is never stale.
masterGainRef == audioContext
pianoSynthRef == audioContext
filterRef == audioContext

\* The state a handler created in the current render reads.
Render == [audioContext |-> audioContext, soundMode |-> soundMode,
           audioSettings |-> audioSettings]

\* ------------------------------------------------------- PianoSynthesizer
\* updateSettings: this.settings = { ...settings }
updateSettings(s) == [volume |-> s.volume, attack |-> s.attack, release |-> s.release]

\* Variant of hasNoise with the boundary included: noise at 1000 Hz as well.
hasNoiseInclusive(frequency) == frequency <= NoiseBelow

\* createPianoSound: the noise transient is built for the lower notes only.
hasNoise(frequency) == frequency < NoiseBelow

\* Variant of createPianoSound without the try/catch around each start: a
\* failing start leaves the function.
createPianoSoundStartThrows(settings, frequency, note, fault) ==
    [threw |-> (settings.volume * 7 = 0) \/ fault # "none",
     voice |-> [note |-> note, mode |-> "piano", frequency |-> frequency,
                oscillators |-> 5, unstopped |-> 0,
                started |-> IF fault = "oscStart" THEN 4 ELSE 5,
                noise |-> hasNoise(frequency),
                noiseStarted |-> hasNoise(frequency) /\ fault # "noiseStart",
                releases |-> 0, by |-> "none", path |-> "none", ramp |-> "none",
                rampTarget |-> None,
                envelope |-> [volume |-> settings.volume,
                              attack |-> settings.attack],
                age |-> 0, rampFrom |-> None,
                rampEnd |-> None, oscStop |-> None, noiseStop |-> None,
                noiseHanded |-> FALSE, teardown |-> "none", teardownAt |-> None]]

\* createPianoSound(frequency).  exponentialRampToValueAtTime throws a
\* RangeError for a target of 0, which volume * 0.7 is when volume is 0.
\* Each osc.start(now) and noiseNode.start(now) has a try/catch of its own:
\* with "oscStart" one oscillator fails to start, with "noiseStart" the
\* noise source does, and the function goes on to its return.
createPianoSound(settings, frequency, note, fault) ==
    [threw |-> (settings.volume * 7 = 0),
     voice |-> [note |-> note, mode |-> "piano", frequency |-> frequency,
                oscillators |-> 5, unstopped |-> 0,
                started |-> IF fault = "oscStart" THEN 4 ELSE 5,
                noise |-> hasNoise(frequency),
                noiseStarted |-> hasNoise(frequency) /\ fault # "noiseStart",
                releases |-> 0, by |-> "none", path |-> "none", ramp |-> "none",
                rampTarget |-> None,
                envelope |-> [volume |-> settings.volume,
                              attack |-> settings.attack],
                age |-> 0, rampFrom |-> None,
                rampEnd |-> None, oscStop |-> None, noiseStop |-> None,
                noiseHanded |-> FALSE, teardown |-> "none", teardownAt |-> None]]

\* 0.7 ^ (k / 10) for k = 0 .. 10, in ten-thousandths: the exponential decay
\* from volume to volume * 0.7 over 0.1 s, sampled every 0.01 s.
DecayCurve == <<10000, 9650, 9311, 8985, 8670, 8367, 8073, 7790, 7518, 7254, 7000>>

\* gainNode.gain.value of a voice age centiseconds after createPianoSound
\* scheduled its envelope, in ten-thousandths: 0 at the start, a linear ramp
\* to volume over the attack, an exponential ramp to volume * 0.7 over the
\* next 0.1 s, and that value from then on.
gainAt(envelope, age) ==
    IF age < envelope.attack
    THEN (envelope.volume * 100 * age) \div envelope.attack
    ELSE IF age < envelope.attack + DecayTime
         THEN (envelope.volume * DecayCurve[age - envelope.attack + 1]) \div 100
         ELSE (envelope.volume * DecayCurve[DecayTime + 1]) \div 100

\* Variant of normalRelease that starts the ramp from the sustain level
\* volume * 0.7 whatever the gain is at the release.
normalReleaseFromSustain(v, settings) ==
    LET effectiveRelease == Min(settings.release, PianoReleaseCeiling)
    IN  [v EXCEPT !.releases = Min(@ + 1, 2),
                  !.path = "normal",
                  !.ramp = IF effectiveRelease < LinearRampBelow
                           THEN "linear" ELSE "exponential",
                  !.rampTarget = IF effectiveRelease < LinearRampBelow
                                 THEN 0 ELSE GainFloor,
                  !.rampFrom = v.envelope.volume * 70,
                  !.rampEnd = effectiveRelease,
                  !.oscStop = effectiveRelease + StopGuard,
                  !.noiseStop = IF v.noise THEN NoiseStopDelay ELSE None,
                  !.noiseHanded = v.noise,
                  !.teardown = "pending",
                  !.teardownAt = effectiveRelease + TeardownGuard]

\* Variant of normalRelease whose cleanup is scheduled at the release time
\* less 0.2 s instead of plus 0.2 s.
normalReleaseEarlyTeardown(v, settings) ==
    LET effectiveRelease == Min(settings.release, PianoReleaseCeiling)
    IN  [v EXCEPT !.releases = Min(@ + 1, 2),
                  !.path = "normal",
                  !.ramp = IF effectiveRelease < LinearRampBelow
                           THEN "linear" ELSE "exponential",
                  !.rampTarget = IF effectiveRelease < LinearRampBelow
                                 THEN 0 ELSE GainFloor,
                  !.rampFrom = gainAt(v.envelope, v.age),
                  !.rampEnd = effectiveRelease,
                  !.oscStop = effectiveRelease + StopGuard,
                  !.noiseStop = IF v.noise THEN NoiseStopDelay ELSE None,
                  !.noiseHanded = v.noise,
                  !.teardown = "pending",
                  !.teardownAt = effectiveRelease - TeardownGuard]

\* Variant of normalRelease that ramps linearly to 0 at 0.1 s as well.
normalReleaseLinearAtThreshold(v, settings) ==
    LET effectiveRelease == Min(settings.release, PianoReleaseCeiling)
    IN  [v EXCEPT !.releases = Min(@ + 1, 2),
                  !.path = "normal",
                  !.ramp = IF effectiveRelease <= LinearRampBelow
                           THEN "linear" ELSE "exponential",
                  !.rampTarget = IF effectiveRelease <= LinearRampBelow
                                 THEN 0 ELSE GainFloor,
                  !.rampFrom = gainAt(v.envelope, v.age),
                  !.rampEnd = effectiveRelease,
                  !.oscStop = effectiveRelease + StopGuard,
                  !.noiseStop = IF v.noise THEN NoiseStopDelay ELSE None,
                  !.noiseHanded = v.noise,
                  !.teardown = "pending",
                  !.teardownAt = effectiveRelease + TeardownGuard]

\* stopPianoSound, the try block: clamp the release, ramp the gain down,
\* schedule the stops and the deferred cleanup.
normalRelease(v, settings) ==
    LET effectiveRelease == Min(settings.release, PianoReleaseCeiling)
    IN  [v EXCEPT !.releases = Min(@ + 1, 2),
                  !.path = "normal",
                  !.ramp = IF effectiveRelease < LinearRampBelow
                           THEN "linear" ELSE "exponential",
                  !.rampTarget = IF effectiveRelease < LinearRampBelow
                                 THEN 0 ELSE GainFloor,
                  !.rampFrom = gainAt(v.envelope, v.age),
                  !.rampEnd = effectiveRelease,
                  !.oscStop = effectiveRelease + StopGuard,
                  !.noiseStop = IF v.noise THEN NoiseStopDelay ELSE None,
                  !.noiseHanded = v.noise,
                  !.teardown = "pending",
                  !.teardownAt = effectiveRelease + TeardownGuard]

\* stopPianoSound, the catch block: gain to 0 and every source stopped now.
emergencyRelease(v) ==
    [v EXCEPT !.releases = Min(@ + 1, 2),
              !.path = "emergency",
              !.ramp = "zero",
              !.rampTarget = 0,
              !.rampEnd = 0,
              !.oscStop = 0,
              !.noiseStop = IF v.noise THEN 0 ELSE None,
              !.noiseHanded = v.noise]

\* Variant of stopPianoSound without its catch block: the exception leaves
\* the function and the voice is untouched.
stopPianoSoundUncaught(v, settings, fault) ==
    [threw |-> (fault # "none"),
     voice |-> IF fault = "none" THEN normalRelease(v, settings) ELSE v]

\* stopPianoSound(oscillators, gainNode, noiseNode): an exception of the
\* normal path is caught and answered by the emergency path; none leaves.
\* "oscStop" and "noiseStop" throw inside the try/catch around that one
\* stop and the normal path goes on; "gainAlways" throws again at the first
\* statement of the emergency path, which skips the rest of it.
stopPianoSound(v, settings, fault) ==
    [threw |-> FALSE,
     voice |-> CASE fault = "none" -> normalRelease(v, settings)
                 [] fault = "gain" -> emergencyRelease(v)
                 [] fault = "oscStop" ->
                        [normalRelease(v, settings) EXCEPT !.unstopped = 1]
                 [] fault = "noiseStop" ->
                        [normalRelease(v, settings) EXCEPT !.noiseStop = None]
                 [] fault = "gainAlways" ->
                        [v EXCEPT !.releases = Min(@ + 1, 2),
                                  !.path = "emergency failed"]]

\* The voices registered for note n, in either registry.
RegisteredIn(reg, n) == IF n \in DOMAIN reg THEN {reg[n]} ELSE {}

\* --------------------------------------------------------- MidiController
DefaultSettings == [volume |-> DefaultVolume, attack |-> DefaultAttack,
                    release |-> DefaultRelease, filterFreq |-> DefaultFilterFreq,
                    reverb |-> DefaultReverb]

\* The single-oscillator voice of playNote's else branch.
createOscillator(c, frequency, note) ==
    [note |-> note, mode |-> "oscillator", frequency |-> frequency,
     oscillators |-> 1, unstopped |-> 0, started |-> 1, noise |-> FALSE,
     noiseStarted |-> FALSE,
     releases |-> 0, by |-> "none", path |-> "none", ramp |-> "none",
     rampTarget |-> None,
     envelope |-> [volume |-> c.audioSettings.volume,
                   attack |-> c.audioSettings.attack],
     age |-> 0, rampFrom |-> None,
     rampEnd |-> None, oscStop |-> None, noiseStop |-> None,
     noiseHanded |-> FALSE, teardown |-> "none", teardownAt |-> None]

\* Variant of releaseOscillator without Math.min: the configured release is
\* used as it is.
releaseOscillatorUnclamped(v, c, fault) ==
    LET releaseTime == c.audioSettings.release
    IN  IF fault = "none"
        THEN [v EXCEPT !.releases = Min(@ + 1, 2), !.path = "normal",
                       !.ramp = "linear", !.rampTarget = 0, !.rampEnd = releaseTime,
                       !.oscStop = releaseTime]
        ELSE [v EXCEPT !.releases = Min(@ + 1, 2), !.path = "failed"]

\* The try block of stopNote's oscillator branch: linear ramp to 0 and
\* osc.stop at the clamped release time; a throw skips what follows it.
releaseOscillator(v, c, fault) ==
    LET releaseTime == Min(c.audioSettings.release, OscReleaseCeiling)
    IN  IF fault = "none"
        THEN [v EXCEPT !.releases = Min(@ + 1, 2), !.path = "normal",
                       !.ramp = "linear", !.rampTarget = 0, !.rampEnd = releaseTime,
                       !.oscStop = releaseTime]
        ELSE [v EXCEPT !.releases = Min(@ + 1, 2), !.path = "failed"]

\* The try block of stopAllNotes' oscillator loop: gain to 0 now, osc.stop().
silenceOscillator(v, fault) ==
    IF fault = "none"
    THEN [v EXCEPT !.releases = Min(@ + 1, 2), !.path = "immediate",
                   !.ramp = "zero", !.rampTarget = 0, !.rampEnd = 0, !.oscStop = 0]
    ELSE [v EXCEPT !.releases = Min(@ + 1, 2), !.path = "failed"]

\* Variant of stopNote without the delete of the finally blocks: the
\* released voice stays registered.
stopNoteKeepsEntry(c, reg, note, fault) ==
    IF c.soundMode = "piano" /\ pianoSynthRef
    THEN IF note \in DOMAIN reg.piano
         THEN LET i == reg.piano[note]
                  r == stopPianoSound(reg.voices[i], synthSettings, fault)
              IN  [piano |-> reg.piano, osc |-> reg.osc,
                   voices |-> [reg.voices EXCEPT
                                  ![i] = [r.voice EXCEPT !.by = "stopNote"]]]
         ELSE reg
    ELSE IF note \in DOMAIN reg.osc /\ c.audioContext
         THEN LET i == reg.osc[note]
              IN  [piano |-> reg.piano, osc |-> reg.osc,
                   voices |-> [reg.voices EXCEPT
                                  ![i] = [releaseOscillator(@, c, fault)
                                            EXCEPT !.by = "stopNote"]]]
         ELSE reg

\* stopNote(note), run with the render state c, on the registries reg =
\* [piano, osc, voices].  Returns the registries after it.
stopNote(c, reg, note, fault) ==
    IF c.soundMode = "piano" /\ pianoSynthRef
    THEN IF note \in DOMAIN reg.piano
         THEN LET i == reg.piano[note]
                  r == stopPianoSound(reg.voices[i], synthSettings, fault)
              IN  \* catch logs the error; finally always deletes the entry
                  [piano |-> Remove(reg.piano, note), osc |-> reg.osc,
                   voices |-> [reg.voices EXCEPT
                                  ![i] = [r.voice EXCEPT !.by = "stopNote"]]]
         ELSE reg
    ELSE IF note \in DOMAIN reg.osc /\ c.audioContext
         THEN LET i == reg.osc[note]
              IN  [piano |-> reg.piano, osc |-> Remove(reg.osc, note),
                   voices |-> [reg.voices EXCEPT
                                  ![i] = [releaseOscillator(@, c, fault)
                                            EXCEPT !.by = "stopNote"]]]
         ELSE reg

Registries == [piano |-> activePianoNotes, osc |-> activeOscillators,
               voices |-> voices]

\* playNote(frequency, note), run with the render state c.  Returns the
\* registries and the synthesizer settings after it.  A fault of StartFaults
\* strikes the start of a source of the new voice, any other one the release
\* of the voice already sounding for the note.  In the else branch
\* oscillator.start() is inside the try that registers the voice.
playNote(c, frequency, note, fault) ==
    IF ~c.audioContext \/ ~masterGainRef
    THEN [reg |-> Registries, settings |-> synthSettings]
    ELSE LET startFault == IF fault \in StartFaults THEN fault ELSE "none"
             stopFault == IF fault \in StartFaults THEN "none" ELSE fault
             s == stopNote(c, Registries, note, stopFault)
             id == Len(s.voices) + 1
         IN  IF c.soundMode = "piano" /\ pianoSynthRef
             THEN LET set == updateSettings(c.audioSettings)
                      r == createPianoSound(set, frequency, note, startFault)
                  IN  IF r.threw
                      THEN [reg |-> s, settings |-> set]
                      ELSE [reg |-> [piano |-> Put(s.piano, note, id),
                                     osc |-> s.osc,
                                     voices |-> Append(s.voices, r.voice)],
                            settings |-> set]
             ELSE IF startFault = "oscStart"
                  THEN [reg |-> s, settings |-> synthSettings]
                  ELSE [reg |-> [piano |-> s.piano,
                                 osc |-> Put(s.osc, note, id),
                                 voices |-> Append(s.voices,
                                              createOscillator(c, frequency, note))],
                        settings |-> synthSettings]

\* forEach over activePianoNotes in insertion order (the order of creation);
\* an exception leaving stopPianoSound would end the loop.
RECURSIVE stopPianoLoop(_, _, _)
stopPianoLoop(ids, vs, faultOf) ==
    IF ids = {}
    THEN [voices |-> vs, threw |-> FALSE]
    ELSE LET i == CHOOSE x \in ids : \A y \in ids : x <= y
             r == stopPianoSound(vs[i], synthSettings, faultOf[vs[i].note])
             vs2 == [vs EXCEPT ![i] = [r.voice EXCEPT !.by = "stopAllNotes"]]
         IN  IF r.threw
             THEN [voices |-> vs2, threw |-> TRUE]
             ELSE stopPianoLoop(ids \ {i}, vs2, faultOf)

\* stopAllNotes().  Returns the registries after it and whether it threw.
stopAllNotes(faultOf) ==
    LET pianoIds == IF pianoSynthRef
                    THEN {activePianoNotes[n] : n \in DOMAIN activePianoNotes}
                    ELSE {}
        p == stopPianoLoop(pianoIds, voices, faultOf)
        oscIds == {activeOscillators[n] : n \in DOMAIN activeOscillators}
    IN  IF p.threw
        THEN [piano |-> activePianoNotes, osc |-> activeOscillators,
              voices |-> p.voices, threw |-> TRUE]
        ELSE [piano |-> << >>, osc |-> << >>,
              voices |-> [i \in DOMAIN p.voices |->
                            IF i \in oscIds
                            THEN [silenceOscillator(p.voices[i],
                                                    faultOf[p.voices[i].note])
                                  EXCEPT !.by = "stopAllNotes"]
                            ELSE p.voices[i]],
              threw |-> FALSE]

\* ------------------------------------------- MidiController / Piano actions
\* Piano key pressed with the mouse: onNotePlay of the current render.
PlayNote(frequency, note, fault) ==
    LET r == playNote(Render, frequency, note, fault)
    IN  /\ activePianoNotes' = r.reg.piano
        /\ activeOscillators' = r.reg.osc
        /\ voices' = r.reg.voices
        /\ synthSettings' = r.settings
        /\ uncaught' = FALSE
        /\ UNCHANGED <<audioContext, knob, filterFrequency, soundMode, audioSettings, masterGain,
                       restoreTimers, pressedKeys, kbd>>
        /\ UNCHANGED <<drumVars, loopVars, stoppedBeside>>

\* Piano key released with the mouse: onNoteStop of the current render.
StopNote(note, fault) ==
    LET r == stopNote(Render, Registries, note, fault)
    IN  /\ activePianoNotes' = r.piano
        /\ activeOscillators' = r.osc
        /\ voices' = r.voices
        /\ uncaught' = FALSE
        /\ UNCHANGED <<audioContext, knob, filterFrequency, soundMode, audioSettings, masterGain,
                       restoreTimers, synthSettings, pressedKeys, kbd>>
        /\ UNCHANGED <<drumVars, loopVars, stoppedBeside>>

\* Piano's window keydown listener; it was bound in the render kbd and is
\* bound again once pressedKeys has changed.
KeyboardDown(key, fault) ==
    /\ key \notin pressedKeys
    /\ LET r == playNote(kbd, NoteFrequency[key], key, fault)
       IN  /\ activePianoNotes' = r.reg.piano
           /\ activeOscillators' = r.reg.osc
           /\ voices' = r.reg.voices
           /\ synthSettings' = r.settings
    /\ pressedKeys' = pressedKeys \cup {key}
    /\ kbd' = Render
    /\ uncaught' = FALSE
    /\ UNCHANGED <<audioContext, knob, filterFrequency, soundMode, audioSettings, masterGain, restoreTimers>>
    /\ UNCHANGED <<drumVars, loopVars, stoppedBeside>>

\* Piano's window keyup listener; it was bound in the render kbd and is
\* bound again once pressedKeys has changed.
KeyboardUp(key, fault) ==
    /\ key \in pressedKeys
    /\ LET r == stopNote(kbd, Registries, key, fault)
       IN  /\ activePianoNotes' = r.piano
           /\ activeOscillators' = r.osc
           /\ voices' = r.voices
    /\ pressedKeys' = pressedKeys \ {key}
    /\ kbd' = Render
    /\ uncaught' = FALSE
    /\ UNCHANGED <<audioContext, knob, filterFrequency, soundMode, audioSettings, masterGain,
                   restoreTimers, synthSettings>>
    /\ UNCHANGED <<drumVars, loopVars, stoppedBeside>>

\* History only: the call of stopAllNotes with result r released a voice
\* while the repeater was active and the loop was playing.
Beside(r) == r.voices # voices /\ isRepeating /\ isPlaying

\* The Piano / Synthesizer buttons: stopAllNotes(), then setSoundMode(m).
SetSoundMode(m, faultOf) ==
    LET r == stopAllNotes(faultOf)
    IN  /\ activePianoNotes' = r.piano
        /\ activeOscillators' = r.osc
        /\ voices' = r.voices
        /\ soundMode' = IF r.threw THEN soundMode ELSE m
        /\ uncaught' = r.threw
        /\ UNCHANGED <<audioContext, knob, filterFrequency, audioSettings, masterGain, restoreTimers,
                       synthSettings, pressedKeys, kbd>>
        /\ UNCHANGED <<drumVars, loopVars>>
        /\ stoppedBeside' = (stoppedBeside \/ Beside(r))

\* Variant of emergencyStop with a wider scope: it also cancels the repeater
\* and stops loop playback.
emergencyStopEverything(faultOf) ==
    LET r == stopAllNotes(faultOf)
        v == audioSettings.volume
    IN  /\ activePianoNotes' = r.piano
        /\ activeOscillators' = r.osc
        /\ voices' = r.voices
        /\ IF ~r.threw /\ masterGainRef
           THEN /\ masterGain' = 0
                /\ restoreTimers' = Append(restoreTimers, v)
           ELSE UNCHANGED <<masterGain, restoreTimers>>
        /\ uncaught' = r.threw
        /\ isRepeating' = FALSE
        /\ repeatTimers' = {}
        /\ repeatIntervalRef' = 0
        /\ isPlaying' = FALSE
        /\ sourceNodeRef' = 0
        /\ liveSources' = {}
        /\ UNCHANGED <<audioContext, knob, filterFrequency, soundMode, audioSettings, synthSettings,
                       pressedKeys, kbd>>
        /\ UNCHANGED <<activeKit, activePad, timersCreated, padTimers, drumKbdPad,
                       toggled, hits, repeatSpeed, lastPlayedSound>>
        /\ UNCHANGED <<isRecording, recordedBuffer, sourcesCreated, mediaRecorderRef,
                       destinationRef, recordingTimerRef, elapsed, recordings, sinks, clearedAt>>
        /\ stoppedBeside' = (stoppedBeside \/ Beside(r))

\* The Stop All button: stopAllNotes(), mute the master gain, and restore it
\* 100 ms later to the volume of this render.
emergencyStop(faultOf) ==
    LET r == stopAllNotes(faultOf)
        v == audioSettings.volume
    IN  /\ activePianoNotes' = r.piano
        /\ activeOscillators' = r.osc
        /\ voices' = r.voices
        /\ IF ~r.threw /\ masterGainRef
           THEN /\ masterGain' = 0
                /\ restoreTimers' = Append(restoreTimers, v)
           ELSE UNCHANGED <<masterGain, restoreTimers>>
        /\ uncaught' = r.threw
        /\ UNCHANGED <<audioContext, knob, filterFrequency, soundMode, audioSettings, synthSettings,
                       pressedKeys, kbd>>
        /\ UNCHANGED <<drumVars, loopVars>>
        /\ stoppedBeside' = (stoppedBeside \/ Beside(r))

EmergencyStop(faultOf) ==
    /\ Len(restoreTimers) < MaxRestore
    /\ emergencyStop(faultOf)

\* The oldest timeout of emergencyStop fires.
RestoreMasterGain ==
    /\ restoreTimers # << >>
    /\ restoreTimers' = Tail(restoreTimers)
    /\ masterGain' = IF masterGainRef THEN Head(restoreTimers) ELSE masterGain
    /\ uncaught' = FALSE
    /\ UNCHANGED <<audioContext, knob, filterFrequency, soundMode, audioSettings, synthSettings, voices,
                   activePianoNotes, activeOscillators, pressedKeys, kbd>>
    /\ UNCHANGED <<drumVars, loopVars, stoppedBeside>>

\* Variant of updateAudioSetting that stores the value for the next note
\* and leaves the shared gain and filter nodes alone.
updateAudioSettingStateOnly(setting, value) ==
    /\ audioSettings' = [audioSettings EXCEPT ![setting] = value]
    /\ uncaught' = FALSE
    /\ UNCHANGED <<audioContext, knob, masterGain, filterFrequency, soundMode, restoreTimers,
                   synthSettings, voices, activePianoNotes, activeOscillators,
                   pressedKeys, kbd>>
    /\ UNCHANGED <<drumVars, loopVars, stoppedBeside>>

\* A control knob reports a new value.
\* updateAudioSetting(setting, value): the React state, and for volume and
\* filterFreq the shared gain and filter nodes, if they exist.
updateAudioSetting(setting, value) ==
    /\ audioSettings' = [audioSettings EXCEPT ![setting] = value]
    /\ masterGain' = IF setting = "volume" /\ masterGainRef THEN value ELSE masterGain
    /\ filterFrequency' = IF setting = "filterFreq" /\ filterRef
                          THEN value ELSE filterFrequency
    /\ uncaught' = FALSE
    /\ UNCHANGED <<audioContext, knob, soundMode, restoreTimers, synthSettings, voices,
                   activePianoNotes, activeOscillators, pressedKeys, kbd>>
    /\ UNCHANGED <<drumVars, loopVars, stoppedBeside>>

SetVolume(v) == updateAudioSetting("volume", v)

SetRelease(r) == updateAudioSetting("release", r)

SetAttack(a) == updateAudioSetting("attack", a)

\* audioContext.currentTime moves on by d while the piano voices are held.
Advance(d) ==
    /\ \E i \in DOMAIN voices :
          voices[i].mode = "piano" /\ voices[i].releases = 0 /\ voices[i].age < MaxAge
    /\ voices' = [i \in DOMAIN voices |->
                    IF voices[i].mode = "piano" /\ voices[i].releases = 0
                    THEN [voices[i] EXCEPT !.age = Min(@ + d, MaxAge)]
                    ELSE voices[i]]
    /\ UNCHANGED <<audioContext, knob, filterFrequency, soundMode, audioSettings,
                   masterGain, restoreTimers, synthSettings, pressedKeys, kbd,
                   activePianoNotes, activeOscillators, uncaught>>
    /\ UNCHANGED <<drumVars, loopVars, stoppedBeside>>

SetFilterFreq(f) == updateAudioSetting("filterFreq", f)

\* Variant of KnobValue without Math.min and Math.max.
KnobValueUnclamped(range, start, deltaY) ==
    start + (deltaY * (range.max - range.min)) \div 100

\* handleMouseMove's newValue for a drag of deltaY pixels upwards:
\* sensitivity is (max - min) / 100 per pixel, the sum is clamped to
\* [min, max].  Values are kept on the grid of the setting's unit, the
\* product rounded down to it; min and max are on the grid.
KnobValue(range, start, deltaY) ==
    Min(range.max, Max(range.min, start + (deltaY * (range.max - range.min)) \div 100))

\* handleMouseDown of the knob `name`: the drag starts at its current value.
KnobMouseDown(name) ==
    /\ knob = NoKnob
    /\ knob' = [name |-> name, start |-> audioSettings[name]]
    /\ uncaught' = FALSE
    /\ UNCHANGED <<audioContext, soundMode, audioSettings, masterGain, filterFrequency,
                   restoreTimers, synthSettings, voices, activePianoNotes,
                   activeOscillators, pressedKeys, kbd>>
    /\ UNCHANGED <<drumVars, loopVars, stoppedBeside>>

\* handleMouseMove of the knob being dragged, deltaY pixels above the start.
KnobMouseMove(deltaY) ==
    /\ knob # NoKnob
    /\ updateAudioSetting(knob.name, KnobValue(KnobRange[knob.name], knob.start, deltaY))

\* handleMouseUp: the drag ends.
KnobMouseUp ==
    /\ knob # NoKnob
    /\ knob' = NoKnob
    /\ uncaught' = FALSE
    /\ UNCHANGED <<audioContext, soundMode, audioSettings, masterGain, filterFrequency,
                   restoreTimers, synthSettings, voices, activePianoNotes,
                   activeOscillators, pressedKeys, kbd>>
    /\ UNCHANGED <<drumVars, loopVars, stoppedBeside>>

\* Variant of Teardown that looks the note up when it fires and disconnects
\* the voice registered for it as well.
TeardownByNote(i) ==
    /\ voices[i].teardown = "pending"
    /\ voices' = [j \in DOMAIN voices |->
                    IF j = i \/ j \in RegisteredIn(activePianoNotes, voices[i].note)
                    THEN [voices[j] EXCEPT !.teardown = "done"]
                    ELSE voices[j]]
    /\ uncaught' = FALSE
    /\ UNCHANGED <<audioContext, knob, filterFrequency, soundMode, audioSettings, masterGain,
                   restoreTimers, synthSettings, activePianoNotes, activeOscillators,
                   pressedKeys, kbd>>
    /\ UNCHANGED <<drumVars, loopVars, stoppedBeside>>

\* The deferred cleanup of stopPianoSound fires for voice i.
Teardown(i) ==
    /\ voices[i].teardown = "pending"
    /\ voices' = [voices EXCEPT ![i].teardown = "done"]
    /\ uncaught' = FALSE
    /\ UNCHANGED <<audioContext, knob, filterFrequency, soundMode, audioSettings, masterGain, restoreTimers,
                   synthSettings, activePianoNotes, activeOscillators,
                   pressedKeys, kbd>>
    /\ UNCHANGED <<drumVars, loopVars, stoppedBeside>>

\* The state after mount: initializeAudio has run (and may have failed);
\* Piano's keyboard listeners were bound in the first render, before it.
MidiInit ==
    /\ audioContext \in BOOLEAN
    /\ soundMode = "piano"
    /\ audioSettings = DefaultSettings
    /\ masterGain = DefaultVolume
    /\ filterFrequency = DefaultFilterFreq
    /\ knob = NoKnob
    /\ restoreTimers = << >>
    /\ synthSettings = updateSettings(DefaultSettings)
    /\ voices = << >>
    /\ activePianoNotes = << >>
    /\ activeOscillators = << >>
    /\ pressedKeys = {}
    /\ kbd = [audioContext |-> FALSE, soundMode |-> "piano",
              audioSettings |-> DefaultSettings]
    /\ uncaught = FALSE

\* Mouse on the piano keys: P pairs <<frequency, note>>, X faults, at most
\* cap voices constructed.
MouseStep(P, X, cap) ==
    \/ \E p \in P, x \in X : Len(voices) < cap /\ PlayNote(p[1], p[2], x)
    \/ \E p \in P, x \in X : StopNote(p[2], x)

\* Computer keyboard: K keys, X faults, at most cap voices constructed.
KeyStep(K, X, cap) ==
    \/ \E k \in K, x \in X : Len(voices) < cap /\ KeyboardDown(k, x)
    \/ \E k \in K, x \in X : KeyboardUp(k, x)

\* Mode buttons, Stop All and its restore timer: X faults.
StopStep(X) ==
    \/ \E m \in Modes, fo \in [Notes -> X] : SetSoundMode(m, fo)
    \/ \E fo \in [Notes -> X] : EmergencyStop(fo)
    \/ RestoreMasterGain

\* The deferred cleanups.
TeardownStep == \E i \in DOMAIN voices : Teardown(i)

\* ------------------------------------------------------------ DrumMachine
\* Three of the twelve DrumSound kinds: two pads of kit1, one of kit2.
DrumSounds == {"kick", "snare", "kick2"}

\* The twelve DrumSound kinds: the six pads of kit1, the six of kit2.
AllDrumSounds == {"kick", "snare", "cymbal", "tom", "snare2", "siren",
                  "kick2", "openhat", "clap", "cowbell", "rimshot", "laser"}

KitOf(sound) ==
    IF sound \in {"kick2", "openhat", "clap", "cowbell", "rimshot", "laser"}
    THEN "kit2" ELSE "kit1"

\* One started source node: its start and its scheduled stop, in ms after
\* the trigger time; stop is None when the recipe schedules none.
Source(kind, start, stop) == [kind |-> kind, start |-> start, stop |-> stop]

\* Variant of Recipe whose siren never stops its LFO.
RecipeFreeLfo(sound) ==
    CASE sound = "kick" -> <<Source("osc", 0, 500)>>
      [] sound = "snare" -> <<Source("noise", 0, 200), Source("osc", 0, 100)>>
      [] sound = "cymbal" -> [i \in 1..5 |-> Source("osc", 0, 300)]
      [] sound = "tom" -> <<Source("osc", 0, 300)>>
      [] sound = "snare2" -> <<Source("noise", 0, 150), Source("osc", 0, 80),
                               Source("osc", 0, 80)>>
      [] sound = "siren" -> <<Source("osc", 0, 2000), Source("osc", 0, 2000),
                              Source("lfo", 0, None)>>
      [] sound = "kick2" -> <<Source("osc", 0, 300), Source("osc", 0, 100)>>
      [] sound = "openhat" -> <<Source("noise", 0, 300)>>
      [] sound = "clap" -> [i \in 1..3 |->
                              Source("noise", (i - 1) * 10, 50 + (i - 1) * 10)]
      [] sound = "cowbell" -> <<Source("osc", 0, 400), Source("osc", 0, 400)>>
      [] sound = "rimshot" -> <<Source("osc", 0, 80), Source("osc", 0, 80)>>
      [] sound = "laser" -> <<Source("osc", 0, 300)>>

\* createKick .. createLaser: the source nodes each recipe starts, with the
\* stop it schedules for each of them.
Recipe(sound) ==
    CASE sound = "kick" -> <<Source("osc", 0, 500)>>
      [] sound = "snare" -> <<Source("noise", 0, 200), Source("osc", 0, 100)>>
      [] sound = "cymbal" -> [i \in 1..5 |-> Source("osc", 0, 300)]
      [] sound = "tom" -> <<Source("osc", 0, 300)>>
      [] sound = "snare2" -> <<Source("noise", 0, 150), Source("osc", 0, 80),
                               Source("osc", 0, 80)>>
      [] sound = "siren" -> <<Source("osc", 0, 2000), Source("osc", 0, 2000),
                              Source("lfo", 0, 2000)>>
      [] sound = "kick2" -> <<Source("osc", 0, 300), Source("osc", 0, 100)>>
      [] sound = "openhat" -> <<Source("noise", 0, 300)>>
      [] sound = "clap" -> [i \in 1..3 |->
                              Source("noise", (i - 1) * 10, 50 + (i - 1) * 10)]
      [] sound = "cowbell" -> <<Source("osc", 0, 400), Source("osc", 0, 400)>>
      [] sound = "rimshot" -> <<Source("osc", 0, 80), Source("osc", 0, 80)>>
      [] sound = "laser" -> <<Source("osc", 0, 300)>>

\* The sources of a hit still running age ms after its trigger: started and
\* not yet at their scheduled stop, or without one.
Running(sources, age) ==
    {i \in DOMAIN sources :
        /\ sources[i].start <= age
        /\ (sources[i].stop = None \/ age < sources[i].stop)}

\* The sources of a hit that have yet to start age ms after its trigger.
Waiting(sources, age) == {i \in DOMAIN sources : sources[i].start > age}

\* Speed presets: Slow, Medium, Fast, Rapid.
SpeedPresets == {400, 200, 100, 50}

\* The nodes a recipe builds for one hit: started, with their stop scheduled
\* by the recipe, or nothing audible when the construction threw.
NewHit(sound, fault) ==
    [sound |-> sound,
     outcome |-> IF fault THEN "caught" ELSE "built",
     nodes |-> IF fault THEN "none" ELSE "sounding",
     sources |-> IF fault THEN << >> ELSE Recipe(sound),
     age |-> 0]

\* Variant of playDrum whose new hit stops the sounding hits of the same
\* sound, as a choke group would.
playDrumChoke(ctx, pad, sound, fault, cap) ==
    IF ~ctx
    THEN UNCHANGED <<activePad, lastPlayedSound, padTimers, hits>>
    ELSE /\ activePad' = sound
         /\ lastPlayedSound' = sound
         /\ padTimers' = Append(padTimers, [sound |-> sound, pad |-> pad])
         /\ hits' = IF Len(hits) < cap
                    THEN Append([i \in DOMAIN hits |->
                                   IF hits[i].sound = sound /\ hits[i].nodes = "sounding"
                                   THEN [hits[i] EXCEPT !.nodes = "ended"]
                                   ELSE hits[i]],
                                NewHit(sound, fault))
                    ELSE hits

\* Variant of playDrum without the try/catch around the recipe.
playDrumUncaught(ctx, pad, sound, fault, cap) ==
    IF ~ctx
    THEN UNCHANGED <<activePad, lastPlayedSound, padTimers, hits>>
    ELSE /\ activePad' = sound
         /\ lastPlayedSound' = sound
         /\ padTimers' = Append(padTimers, [sound |-> sound, pad |-> pad])
         /\ hits' = IF Len(hits) < cap
                    THEN Append(hits, [NewHit(sound, fault) EXCEPT
                                         !.outcome = IF fault THEN "thrown" ELSE @])
                    ELSE hits

\* playDrum(sound) of a render with the given audioContext and activePad:
\* the pad state is set and the pad-pulse timeout armed, then the recipe is
\* built inside try/catch, from new nodes, keeping no reference to them.
\* The nodes of the first cap hits of a behaviour are followed in hits.
playDrum(ctx, pad, sound, fault, cap) ==
    IF ~ctx
    THEN UNCHANGED <<activePad, lastPlayedSound, padTimers, hits>>
    ELSE /\ activePad' = sound
         /\ lastPlayedSound' = sound
         /\ padTimers' = Append(padTimers, [sound |-> sound, pad |-> pad])
         /\ hits' = IF Len(hits) < cap
                    THEN Append(hits, NewHit(sound, fault))
                    ELSE hits

\* A pad of the current kit is clicked; the recipe throws if fault.
PadHit(sound, fault, cap) ==
    /\ KitOf(sound) = activeKit
    /\ Len(padTimers) < MaxPadTimers
    /\ playDrum(audioContext, activePad, sound, fault, cap)
    /\ UNCHANGED <<activeKit, timersCreated, drumKbdPad, toggled, isRepeating,
                   repeatSpeed, repeatIntervalRef, repeatTimers>>
    /\ UNCHANGED <<midiVars, loopVars, stoppedBeside>>

\* A pad of the current kit is clicked, its nodes not followed.
PadClick(sound) == PadHit(sound, FALSE, 0)

\* Keys 1-6: the keydown listener, bound again only when audioContext,
\* masterGain or activeKit change.
PadKeyHit(sound, fault, cap) ==
    /\ KitOf(sound) = activeKit
    /\ Len(padTimers) < MaxPadTimers
    /\ playDrum(audioContext, drumKbdPad, sound, fault, cap)
    /\ UNCHANGED <<activeKit, timersCreated, drumKbdPad, toggled, isRepeating,
                   repeatSpeed, repeatIntervalRef, repeatTimers>>
    /\ UNCHANGED <<midiVars, loopVars, stoppedBeside>>

\* Keys 1-6, the nodes of the hit not followed.
PadKey(sound) == PadKeyHit(sound, FALSE, 0)

\* The nodes of hit i reach the stop time their recipe scheduled.
HitEnds(i) ==
    /\ i \in DOMAIN hits
    /\ hits[i].nodes = "sounding"
    /\ hits' = [hits EXCEPT ![i].nodes = "ended"]
    /\ UNCHANGED <<activeKit, activePad, timersCreated, padTimers, drumKbdPad, toggled,
                   repeaterVars>>
    /\ UNCHANGED <<midiVars, loopVars, stoppedBeside>>

\* ctx.currentTime moves on by d ms: the hits that sound grow older, and a
\* hit none of whose sources runs or waits any more has ended.
DrumAdvance(d) ==
    /\ \E i \in DOMAIN hits : hits[i].nodes = "sounding"
    /\ hits' = [i \in DOMAIN hits |->
                  IF hits[i].nodes = "sounding"
                  THEN LET a == Min(hits[i].age + d, MaxHitAge)
                       IN  [hits[i] EXCEPT
                              !.age = a,
                              !.nodes = IF Running(hits[i].sources, a) = {}
                                           /\ Waiting(hits[i].sources, a) = {}
                                        THEN "ended" ELSE "sounding"]
                  ELSE hits[i]]
    /\ UNCHANGED <<activeKit, activePad, timersCreated, padTimers, drumKbdPad, toggled,
                   repeaterVars>>
    /\ UNCHANGED <<midiVars, loopVars, stoppedBeside>>

\* The kit toggle.
SetActiveKit ==
    /\ activeKit' = IF activeKit = "kit1" THEN "kit2" ELSE "kit1"
    /\ drumKbdPad' = activePad
    /\ UNCHANGED <<activePad, timersCreated, padTimers, toggled, hits, repeaterVars>>
    /\ UNCHANGED <<midiVars, loopVars, stoppedBeside>>

\* The 150 ms timeout of the oldest playDrum call fires.
PadTimeout ==
    /\ padTimers # << >>
    /\ activePad' = IF Head(padTimers).pad = Head(padTimers).sound
                    THEN "" ELSE activePad
    /\ padTimers' = Tail(padTimers)
    /\ UNCHANGED <<activeKit, timersCreated, drumKbdPad, toggled, hits, repeaterVars>>
    /\ UNCHANGED <<midiVars, loopVars, stoppedBeside>>

\* window.setInterval(() => { if (lastPlayedSound) playDrum(lastPlayedSound) }, period)
\* called in the current render by the handler `by`.
NewInterval(period, by) ==
    [id |-> timersCreated + 1, period |-> period,
     sound |-> lastPlayedSound, pad |-> activePad, by |-> by]

Cleared(id) == {t \in repeatTimers : t.id # id}

\* Variant of toggleRepeat without the lastPlayedSound test.
toggleRepeatUnguarded ==
    IF isRepeating
    THEN /\ IF repeatIntervalRef # 0
            THEN /\ repeatTimers' = Cleared(repeatIntervalRef)
                 /\ repeatIntervalRef' = 0
            ELSE UNCHANGED <<repeatTimers, repeatIntervalRef>>
         /\ isRepeating' = FALSE
         /\ UNCHANGED timersCreated
    ELSE /\ isRepeating' = TRUE
         /\ repeatTimers' = repeatTimers \cup {NewInterval(repeatSpeed, "toggleRepeat")}
         /\ repeatIntervalRef' = timersCreated + 1
         /\ timersCreated' = timersCreated + 1

\* Variant of toggleRepeat whose stop branch forgets clearInterval.
toggleRepeatNoClear ==
    IF isRepeating
    THEN /\ isRepeating' = FALSE
         /\ repeatIntervalRef' = 0
         /\ UNCHANGED <<repeatTimers, timersCreated>>
    ELSE IF lastPlayedSound # ""
         THEN /\ isRepeating' = TRUE
              /\ repeatTimers' = repeatTimers \cup {NewInterval(repeatSpeed, "toggleRepeat")}
              /\ repeatIntervalRef' = timersCreated + 1
              /\ timersCreated' = timersCreated + 1
         ELSE UNCHANGED <<isRepeating, repeatTimers, repeatIntervalRef, timersCreated>>

\* toggleRepeat()
toggleRepeat ==
    IF isRepeating
    THEN /\ IF repeatIntervalRef # 0
            THEN /\ repeatTimers' = Cleared(repeatIntervalRef)
                 /\ repeatIntervalRef' = 0
            ELSE UNCHANGED <<repeatTimers, repeatIntervalRef>>
         /\ isRepeating' = FALSE
         /\ UNCHANGED timersCreated
    ELSE IF lastPlayedSound # ""
         THEN /\ isRepeating' = TRUE
              /\ repeatTimers' = repeatTimers \cup {NewInterval(repeatSpeed, "toggleRepeat")}
              /\ repeatIntervalRef' = timersCreated + 1
              /\ timersCreated' = timersCreated + 1
         ELSE UNCHANGED <<isRepeating, repeatTimers, repeatIntervalRef, timersCreated>>

ToggleRepeat ==
    /\ isRepeating \/ timersCreated < MaxTimers
    /\ toggleRepeat
    /\ toggled' = TRUE
    /\ UNCHANGED <<activeKit, activePad, padTimers, drumKbdPad, hits, repeatSpeed,
                   lastPlayedSound>>
    /\ UNCHANGED <<midiVars, loopVars, stoppedBeside>>

\* Variant of updateRepeatSpeed that starts the new interval without
\* clearing the old one.
updateRepeatSpeedLeaky(speed) ==
    /\ repeatSpeed' = speed
    /\ IF isRepeating /\ repeatIntervalRef # 0
       THEN /\ repeatTimers' = repeatTimers \cup {NewInterval(speed, "updateRepeatSpeed")}
            /\ repeatIntervalRef' = timersCreated + 1
            /\ timersCreated' = timersCreated + 1
       ELSE UNCHANGED <<repeatTimers, repeatIntervalRef, timersCreated>>

\* updateRepeatSpeed(speed)
updateRepeatSpeed(speed) ==
    /\ repeatSpeed' = speed
    /\ IF isRepeating /\ repeatIntervalRef # 0
       THEN /\ repeatTimers' = Cleared(repeatIntervalRef)
                                 \cup {NewInterval(speed, "updateRepeatSpeed")}
            /\ repeatIntervalRef' = timersCreated + 1
            /\ timersCreated' = timersCreated + 1
       ELSE UNCHANGED <<repeatTimers, repeatIntervalRef, timersCreated>>

UpdateRepeatSpeed(speed) ==
    /\ ~isRepeating \/ timersCreated < MaxTimers
    /\ updateRepeatSpeed(speed)
    /\ UNCHANGED <<activeKit, activePad, padTimers, drumKbdPad, toggled, hits,
                   isRepeating, lastPlayedSound>>
    /\ UNCHANGED <<midiVars, loopVars, stoppedBeside>>

\* Variant of SpeedFaster without Math.max and without the disabled test.
SpeedFasterUnbounded ==
    UpdateRepeatSpeed(repeatSpeed - SpeedStep)

\* The "+" button: 50 ms faster, disabled at 50 ms.
SpeedFaster ==
    /\ repeatSpeed > MinRepeatSpeed
    /\ UpdateRepeatSpeed(Max(MinRepeatSpeed, repeatSpeed - SpeedStep))

\* The "-" button: 50 ms slower, disabled at 1000 ms.
SpeedSlower ==
    /\ repeatSpeed < MaxRepeatSpeed
    /\ UpdateRepeatSpeed(Min(MaxRepeatSpeed, repeatSpeed + SpeedStep))

\* A live interval fires its callback, which reads the render it was made in.
RepeatHit(t, fault, cap) ==
    /\ t \in repeatTimers
    /\ Len(padTimers) < MaxPadTimers
    /\ IF t.sound # ""
       THEN playDrum(TRUE, t.pad, t.sound, fault, cap)
       ELSE UNCHANGED <<activePad, lastPlayedSound, padTimers, hits>>
    /\ UNCHANGED <<activeKit, timersCreated, drumKbdPad, toggled, isRepeating,
                   repeatSpeed, repeatIntervalRef, repeatTimers>>
    /\ UNCHANGED <<midiVars, loopVars, stoppedBeside>>

\* The same, the nodes of the hit not followed.
RepeatTick(t) == RepeatHit(t, FALSE, 0)

DrumInit ==
    /\ activeKit = "kit1"
    /\ activePad = ""
    /\ lastPlayedSound = ""
    /\ isRepeating = FALSE
    /\ repeatSpeed = DefaultRepeatSpeed
    /\ repeatIntervalRef = 0
    /\ repeatTimers = {}
    /\ timersCreated = 0
    /\ padTimers = << >>
    /\ drumKbdPad = ""
    /\ toggled = FALSE
    /\ hits = << >>

\* Pads: clicks and keys of S, the kit toggle, the pad timeouts.
PadStep(S) ==
    \/ \E k \in S : PadClick(k)
    \/ \E k \in S : PadKey(k)
    \/ SetActiveKit
    \/ PadTimeout

\* The repeater: toggle, presets of Q, ticks of the live intervals.
RepeaterStep(Q) ==
    \/ ToggleRepeat
    \/ \E q \in Q : UpdateRepeatSpeed(q)
    \/ \E t \in repeatTimers : RepeatTick(t)

\* The "+" and "-" speed buttons.
SpeedButtonStep ==
    \/ SpeedFaster
    \/ SpeedSlower

\* ----------------------------------------------------------- LoopRecorder
\* What stopLoop reads and writes, and the buffer beside it.
LoopPlayback ==
    [sourceNodeRef |-> sourceNodeRef, isPlaying |-> isPlaying,
     liveSources |-> liveSources, recordedBuffer |-> recordedBuffer]

\* Variant of stopLoopOn without the null test: stop() is called on null.
stopLoopOnUnchecked(p) ==
    [threw |-> (p.sourceNodeRef = 0),
     state |-> IF p.sourceNodeRef = 0 THEN p
               ELSE [p EXCEPT !.liveSources = {x \in @ : x.id # p.sourceNodeRef},
                              !.sourceNodeRef = 0,
                              !.isPlaying = FALSE]]

\* Variant of stopLoopOn that drops the reference without stopping and
\* disconnecting the source.
stopLoopOnKeepsSource(p) ==
    [threw |-> FALSE,
     state |-> [p EXCEPT !.sourceNodeRef = 0, !.isPlaying = FALSE]]

\* stopLoop() applied to the playback state p: stop and disconnect the
\* source the ref holds, if any, null the ref, setIsPlaying(false).
stopLoopOn(p) ==
    [threw |-> FALSE,
     state |-> [p EXCEPT !.liveSources = {x \in @ : x.id # p.sourceNodeRef},
                         !.sourceNodeRef = 0,
                         !.isPlaying = FALSE]]

\* stopLoop()
stopLoop ==
    LET r == stopLoopOn(LoopPlayback).state
    IN  /\ sourceNodeRef' = r.sourceNodeRef
        /\ isPlaying' = r.isPlaying
        /\ liveSources' = r.liveSources

\* The Record Loop / Record New buttons (one of them is shown while not
\* recording): startRecording().  With fault, new MediaRecorder throws after
\* the capture sink was created and connected.
StartRecording(fault) ==
    /\ ~isRecording
    /\ Len(recordings) < MaxRecordings
    /\ IF ~audioContext
       THEN UNCHANGED loopVars
       ELSE /\ destinationRef' = Len(recordings) + 1
            /\ sinks' = sinks \cup {Len(recordings) + 1}
            /\ IF fault
               THEN /\ recordings' = Append(recordings,
                                            [state |-> "failed", stoppedBy |-> "none"])
                    /\ UNCHANGED <<mediaRecorderRef, isRecording, recordingTimerRef,
                                   elapsed>>
               ELSE /\ mediaRecorderRef' = Len(recordings) + 1
                    /\ recordings' = Append(recordings,
                                            [state |-> "recording", stoppedBy |-> "none"])
                    /\ isRecording' = TRUE
                    /\ recordingTimerRef' = TRUE
                    /\ elapsed' = 0
            /\ UNCHANGED <<isPlaying, recordedBuffer, sourceNodeRef, liveSources,
                           sourcesCreated, clearedAt>>
    /\ UNCHANGED <<midiVars, drumVars, stoppedBeside>>

\* stopRecording(), called by `by`: stop the MediaRecorder unless inactive,
\* clear the timer, setIsRecording(false).
stopRecording(by) ==
    /\ recordings' = IF mediaRecorderRef # 0
                        /\ recordings[mediaRecorderRef].state = "recording"
                     THEN [recordings EXCEPT ![mediaRecorderRef] =
                              [state |-> "decoding", stoppedBy |-> by]]
                     ELSE recordings
    /\ recordingTimerRef' = FALSE
    /\ elapsed' = 0
    /\ isRecording' = FALSE
    /\ UNCHANGED <<isPlaying, recordedBuffer, sourceNodeRef, liveSources,
                   sourcesCreated, mediaRecorderRef, destinationRef, sinks, clearedAt>>

\* The Stop Recording button (shown while recording).
StopRecording ==
    /\ isRecording
    /\ stopRecording("button")
    /\ UNCHANGED <<midiVars, drumVars, stoppedBeside>>

\* Variant of RecordingTick that compares with > instead of >=.
RecordingTickLate ==
    /\ recordingTimerRef
    /\ IF elapsed + RecordingTickPeriod > RecordingCeiling
       THEN stopRecording("timer")
       ELSE /\ elapsed' = elapsed + RecordingTickPeriod
            /\ UNCHANGED <<isRecording, isPlaying, recordedBuffer, sourceNodeRef,
                           liveSources, sourcesCreated, mediaRecorderRef,
                           destinationRef, recordingTimerRef, recordings, sinks, clearedAt>>
    /\ UNCHANGED <<midiVars, drumVars, stoppedBeside>>

\* The elapsed-time interval fires, one period after its last firing: it
\* reads the time since the start and calls stopRecording() at 10 s.
RecordingTick ==
    /\ recordingTimerRef
    /\ IF elapsed + RecordingTickPeriod >= RecordingCeiling
       THEN stopRecording("timer")
       ELSE /\ elapsed' = elapsed + RecordingTickPeriod
            /\ UNCHANGED <<isRecording, isPlaying, recordedBuffer, sourceNodeRef,
                           liveSources, sourcesCreated, mediaRecorderRef,
                           destinationRef, recordingTimerRef, recordings, sinks, clearedAt>>
    /\ UNCHANGED <<midiVars, drumVars, stoppedBeside>>

\* mediaRecorder.onstop of recording i: processRecording settles (decoded or
\* failed, the failure caught inside it), then the sink destinationRef
\* currently holds is disconnected.
DecodeSettles(i, ok) ==
    /\ i \in DOMAIN recordings
    /\ recordings[i].state = "decoding"
    /\ recordings' = [recordings EXCEPT ![i].state = IF ok THEN "done" ELSE "undecoded"]
    /\ recordedBuffer' = IF ok THEN i ELSE recordedBuffer
    /\ sinks' = IF destinationRef # 0 THEN sinks \ {destinationRef} ELSE sinks
    /\ UNCHANGED <<isRecording, isPlaying, sourceNodeRef, liveSources, sourcesCreated,
                   mediaRecorderRef, destinationRef, recordingTimerRef, elapsed,
                   clearedAt>>
    /\ UNCHANGED <<midiVars, drumVars, stoppedBeside>>

\* Variant of PlayLoopWith that sets the playing flag before it builds the
\* source.
PlayLoopWithFlagFirst(fault) ==
    /\ recordedBuffer # 0 /\ ~isRecording /\ ~isPlaying
    /\ sourcesCreated < MaxSources
    /\ IF ~audioContext
       THEN UNCHANGED <<sourceNodeRef, isPlaying, liveSources, sourcesCreated>>
       ELSE LET r == stopLoopOn(LoopPlayback).state
            IN  /\ sourceNodeRef' = IF fault THEN r.sourceNodeRef
                                    ELSE sourcesCreated + 1
                /\ liveSources' = IF fault THEN r.liveSources
                                  ELSE r.liveSources
                                         \cup {[id |-> sourcesCreated + 1,
                                                buffer |-> recordedBuffer]}
                /\ sourcesCreated' = sourcesCreated + 1
                /\ isPlaying' = TRUE
    /\ UNCHANGED <<isRecording, recordedBuffer, mediaRecorderRef, destinationRef,
                   recordingTimerRef, elapsed, recordings, sinks, clearedAt>>
    /\ UNCHANGED <<midiVars, drumVars, stoppedBeside>>

\* The Play Loop button (shown with a buffer, not recording, not playing):
\* playLoop() runs stopLoop() and then starts a new looping source.  With
\* fault, source.start(0) throws: the catch logs it, and the source that was
\* built is neither kept in the ref nor playing.
PlayLoopWith(fault) ==
    /\ recordedBuffer # 0 /\ ~isRecording /\ ~isPlaying
    /\ sourcesCreated < MaxSources
    /\ IF ~audioContext
       THEN UNCHANGED <<sourceNodeRef, isPlaying, liveSources, sourcesCreated>>
       ELSE LET r == stopLoopOn(LoopPlayback).state
            IN  /\ sourceNodeRef' = IF fault THEN r.sourceNodeRef
                                    ELSE sourcesCreated + 1
                /\ liveSources' = IF fault THEN r.liveSources
                                  ELSE r.liveSources
                                         \cup {[id |-> sourcesCreated + 1,
                                                buffer |-> recordedBuffer]}
                /\ sourcesCreated' = sourcesCreated + 1
                /\ isPlaying' = IF fault THEN r.isPlaying ELSE TRUE
    /\ UNCHANGED <<isRecording, recordedBuffer, mediaRecorderRef, destinationRef,
                   recordingTimerRef, elapsed, recordings, sinks, clearedAt>>
    /\ UNCHANGED <<midiVars, drumVars, stoppedBeside>>

\* The Play Loop button, the source starting.
PlayLoop == PlayLoopWith(FALSE)

\* The Stop Loop button (shown with a buffer, not recording, playing).
StopLoop ==
    /\ recordedBuffer # 0 /\ ~isRecording /\ isPlaying
    /\ stopLoop
    /\ UNCHANGED <<isRecording, recordedBuffer, sourcesCreated, mediaRecorderRef,
                   destinationRef, recordingTimerRef, elapsed, recordings, sinks, clearedAt>>
    /\ UNCHANGED <<midiVars, drumVars, stoppedBeside>>

\* The Clear button (shown with a buffer, not recording): clearRecording().
ClearRecording ==
    /\ recordedBuffer # 0 /\ ~isRecording
    /\ stopLoop
    /\ recordedBuffer' = 0
    /\ clearedAt' = Len(recordings)
    /\ UNCHANGED <<isRecording, sourcesCreated, mediaRecorderRef, destinationRef,
                   recordingTimerRef, elapsed, recordings, sinks>>
    /\ UNCHANGED <<midiVars, drumVars, stoppedBeside>>

LoopInit ==
    /\ isRecording = FALSE
    /\ isPlaying = FALSE
    /\ recordedBuffer = 0
    /\ sourceNodeRef = 0
    /\ liveSources = {}
    /\ sourcesCreated = 0
    /\ mediaRecorderRef = 0
    /\ destinationRef = 0
    /\ recordingTimerRef = FALSE
    /\ elapsed = 0
    /\ recordings = << >>
    /\ sinks = {}
    /\ clearedAt = None

\* The recorder's buttons and its decodes: F start faults, D decode outcomes.
LoopStep(F, D) ==
    \/ \E f \in F : StartRecording(f)
    \/ StopRecording
    \/ \E i \in DOMAIN recordings, ok \in D : DecodeSettles(i, ok)
    \/ PlayLoop
    \/ StopLoop
    \/ ClearRecording

\* --------------------------------------------------------- specifications
Init == MidiInit /\ DrumInit /\ LoopInit /\ stoppedBeside = FALSE

TablePairs == {<<NoteFrequency[n], n>> : n \in Notes}

\* The whole workstation.
Next ==
    \/ MouseStep(TablePairs \cup {<<f, "B5">> : f \in Frequencies}, Faults, MaxVoices)
    \/ KeyStep(Notes, Faults, MaxVoices)
    \/ StopStep(Faults)
    \/ \E v \in Volumes : SetVolume(v)
    \/ \E r \in Releases : SetRelease(r)
    \/ \E a \in Attacks : SetAttack(a)
    \/ \E d \in AgeSteps : Advance(d)
    \/ TeardownStep
    \/ PadStep(DrumSounds)
    \/ \E d \in DrumClockSteps : DrumAdvance(d)
    \/ RepeaterStep(SpeedPresets)
    \/ SpeedButtonStep
    \/ LoopStep(BOOLEAN, BOOLEAN)
    \/ RecordingTick

Spec == Init /\ [][Next]_vars

\* The voice registry: both keys by mouse and by keyboard, both modes,
\* failing releases.
RegistryNext ==
    \/ MouseStep(TablePairs, Faults, MaxVoices)
    \/ KeyStep(Notes, Faults, MaxVoices)
    \/ StopStep(Faults)
    \/ TeardownStep

SpecRegistry == Init /\ [][RegistryNext]_vars

\* Voice construction against the volume knob: one key, volume down to 0.
VolumeNext ==
    \/ MouseStep({<<26163, "C4">>}, {"none"}, MaxVoices)
    \/ KeyStep({"C4"}, {"none"}, MaxVoices)
    \/ StopStep({"none"})
    \/ \E v \in Volumes : SetVolume(v)
    \/ TeardownStep

SpecVolume == Init /\ [][VolumeNext]_vars

\* stopAllNotes with failing releases: both keys by mouse, one key by
\* keyboard, both modes.
StopAllNext ==
    \/ MouseStep(TablePairs, {"none"}, MaxVoices)
    \/ KeyStep({"B5"}, {"none"}, MaxVoices)
    \/ StopStep(Faults)
    \/ TeardownStep

SpecStopAll == Init /\ [][StopAllNext]_vars

\* The release scheduler: one key driven with the mouse, every release
\* setting, both modes, failing releases.
ReleaseNext ==
    \/ MouseStep({<<98776, "B5">>}, Faults, MaxVoices)
    \/ StopStep(Faults)
    \/ \E r \in Releases : SetRelease(r)
    \/ TeardownStep

SpecRelease == Init /\ [][ReleaseNext]_vars

\* Voice construction at frequencies around 1000 Hz, and the release of
\* what was constructed.
NoiseNext ==
    \/ MouseStep({<<f, "B5">> : f \in Frequencies \ {26163}}, Faults, MaxVoices)
    \/ StopStep(Faults)
    \/ TeardownStep

SpecNoise == Init /\ [][NoiseNext]_vars

\* The drum machine and its repeater.
RepeaterNext ==
    \/ PadStep(DrumSounds)
    \/ RepeaterStep(SpeedPresets)
    \/ SpeedButtonStep

SpecRepeater == Init /\ [][RepeaterNext]_vars

\* Melodic voices next to a running repeater and loop recorder.  The three
\* components share no variable but audioContext, which no step changes.
WorkstationNext ==
    \/ MouseStep({<<26163, "C4">>}, {"none"}, MaxFrameVoices)
    \/ StopStep({"none"})
    \/ TeardownStep
    \/ \E k \in {"kick"} : PadClick(k)
    \/ PadTimeout
    \/ RepeaterStep({100})
    \/ LoopStep({FALSE}, {TRUE})

SpecWorkstation == Init /\ [][WorkstationNext]_vars

\* Retriggers: noteOn by mouse with no noteOff, in both modes, at every
\* release setting, with failing releases.
RetriggerNext ==
    \/ \E p \in TablePairs, x \in Faults : Len(voices) < MaxVoices /\ PlayNote(p[1], p[2], x)
    \/ \E m \in Modes, fo \in [Notes -> {"none"}] : SetSoundMode(m, fo)
    \/ \E r \in Releases : SetRelease(r)
    \/ TeardownStep

SpecRetrigger == Init /\ [][RetriggerNext]_vars

\* The same, with every pending teardown timeout firing: setTimeout runs its
\* callback once the delay has passed.
FairSpecRetrigger == SpecRetrigger /\ WF_vars(TeardownStep)

\* The volume and filter knobs turned while notes sustain, in both modes and
\* across Stop All.
SettingsNext ==
    \/ MouseStep({<<26163, "C4">>}, {"none"}, MaxVoices)
    \/ StopStep({"none"})
    \/ \E v \in Volumes : SetVolume(v)
    \/ \E f \in FilterFreqs : SetFilterFreq(f)
    \/ TeardownStep

SpecSettings == Init /\ [][SettingsNext]_vars

\* stopPianoSound with every kind of failure: one key with a noise
\* transient, released by mouse at every release setting.
StopVoiceNext ==
    \/ Len(voices) < MaxVoices /\ PlayNote(98776, "B5", "none")
    \/ \E x \in StopFaults : StopNote("B5", x)
    \/ \E r \in Releases : SetRelease(r)
    \/ TeardownStep

SpecStopVoice == Init /\ [][StopVoiceNext]_vars

\* Releases on the normal path around the 0.1 s threshold.
RampNext ==
    \/ Len(voices) < MaxVoices /\ PlayNote(98776, "B5", "none")
    \/ StopNote("B5", "none")
    \/ \E r \in RampReleases : SetRelease(r)
    \/ TeardownStep

SpecRamp == Init /\ [][RampNext]_vars

\* Piano voices released at every phase of their envelope.
EnvelopeNext ==
    \/ Len(voices) < MaxVoices /\ PlayNote(26163, "C4", "none")
    \/ StopNote("C4", "none")
    \/ \E a \in Attacks : SetAttack(a)
    \/ \E r \in {5, 150} : SetRelease(r)
    \/ \E d \in AgeSteps : Advance(d)

SpecEnvelope == Init /\ [][EnvelopeNext]_vars

\* Piano voices built with a source that fails to start.
StartNext ==
    \/ /\ Len(voices) < MaxVoices
       /\ \E x \in StartFaults \cup {"none"} : PlayNote(26163, "C4", x)
    \/ StopNote("C4", "none")
    \/ \E r \in {5, 150} : SetRelease(r)
    \/ TeardownStep

SpecStart == Init /\ [][StartNext]_vars

\* Every pad of both kits: the hits struck while no pad pulse is pending are
\* followed from the trigger to their last scheduled stop.
RecipesNext ==
    \/ \E k \in AllDrumSounds : PadHit(k, FALSE, MaxHits)
    \/ SetActiveKit
    \/ \E d \in DrumClockSteps : DrumAdvance(d)

SpecRecipes == Init /\ [][RecipesNext]_vars

\* The computer keyboard alone, with the mode buttons.
KeysNext ==
    \/ KeyStep(Notes, {"none"}, MaxVoices)
    \/ \E m \in Modes : SetSoundMode(m, [n \in Notes |-> "none"])
    \/ TeardownStep

SpecKeys == Init /\ [][KeysNext]_vars

\* Loop playback with sources that fail to start, across recordings and
\* clears.
PlaybackNext ==
    \/ StartRecording(FALSE)
    \/ StopRecording
    \/ \E i \in DOMAIN recordings, ok \in BOOLEAN : DecodeSettles(i, ok)
    \/ \E f \in BOOLEAN : PlayLoopWith(f)
    \/ StopLoop
    \/ ClearRecording

SpecPlayback == Init /\ [][PlaybackNext]_vars

\* The volume, attack and release knobs dragged up and down, past their
\* ends too.
KnobsNext ==
    \/ \E k \in {"volume", "attack", "release"} : KnobMouseDown(k)
    \/ \E d \in PixelDeltas : KnobMouseMove(d)
    \/ KnobMouseUp

SpecKnobs == Init /\ [][KnobsNext]_vars

\* The pads: clicks, keys, the kit toggle and the pad-pulse timeouts, and
\* the repeater replaying the last pad.
PadsNext ==
    \/ PadStep(DrumSounds)
    \/ ToggleRepeat
    \/ \E t \in repeatTimers : RepeatTick(t)

SpecPads == Init /\ [][PadsNext]_vars

\* Percussion hits followed to their end, by click and by the repeater, with
\* recipes that throw, next to a melodic voice.
HitsNext ==
    \/ \E k \in {"kick", "snare"}, f \in BOOLEAN : PadHit(k, f, MaxHits)
    \/ \E t \in repeatTimers, f \in BOOLEAN : RepeatHit(t, f, MaxHits)
    \/ \E i \in DOMAIN hits : HitEnds(i)
    \/ PadTimeout
    \/ ToggleRepeat
    \/ Len(voices) < MaxFrameVoices /\ PlayNote(26163, "C4", "none")

SpecHits == Init /\ [][HitsNext]_vars

\* The loop recorder alone: its buttons, failing starts, decodes that
\* succeed or fail, and the elapsed-time interval.
LoopNext ==
    \/ LoopStep(BOOLEAN, BOOLEAN)
    \/ RecordingTick

SpecLoop == Init /\ [][LoopNext]_vars

\* The same, with the interval firing as long as it is set: setInterval
\* keeps scheduling its callback until clearInterval.
FairSpecLoop == SpecLoop /\ WF_vars(RecordingTick)

\* ----------------------------------------------------------- properties
RegisteredIds(n) == RegisteredIn(activePianoNotes, n) \cup RegisteredIn(activeOscillators, n)

AllRegistered == UNION {RegisteredIds(n) : n \in Notes}

\* noteOff(n), from the mouse or from the keyboard.
NoteOff(n) ==
    \/ \E x \in Faults : StopNote(n, x)
    \/ \E x \in Faults : KeyboardUp(n, x)

\* stopAll(), as the program calls it: a mode button or the Stop All button.
StopAllCall ==
    \/ \E m \in Modes, fo \in [Notes -> Faults] : SetSoundMode(m, fo)
    \/ \E fo \in [Notes -> Faults] : EmergencyStop(fo)

\* Every repeat period the speed controls can produce.
AllSpeeds == {SpeedStep * k : k \in 1..20}

\* C1: a noteOn for a note that already has a registered voice (a second
\* noteOn with no noteOff in between), made by the handler of the current
\* render, leaves exactly one voice registered for the note, a new one, and
\* has released the first voice exactly once.
C1_RetriggerReplaces ==
    [][\A n \in Notes :
          (RegisteredIds(n) # {} /\ \E f \in Frequencies, x \in Faults : PlayNote(f, n, x))
          => /\ Cardinality(RegisteredIds(n)') = 1
             /\ RegisteredIds(n)' \cap DOMAIN voices = {}
             /\ \A i \in RegisteredIds(n) : voices'[i].releases = 1]_vars

\* The retrigger at volume 0: the first voice is released and no voice is
\* registered for the note while the second noteOn has been made.
C1_RetriggerLostVoice ==
    /\ audioSettings.volume = 0
    /\ synthSettings.volume = 0
    /\ soundMode = "piano"
    /\ Len(voices) = 1
    /\ voices[1].by = "stopNote"
    /\ AllRegistered = {}

\* C2: a noteOff for a note that has a registered voice releases that voice
\* once and leaves no voice registered for the note, also when the release
\* threw.
C2_NoteOffRemoves ==
    [][\A n \in Notes :
          (RegisteredIds(n) # {} /\ NoteOff(n))
          => /\ RegisteredIds(n)' = {}
             /\ \A i \in RegisteredIds(n) : voices'[i].releases = 1]_vars

\* A piano voice stays registered in oscillator mode with every key up.
C2_StuckVoice ==
    /\ soundMode = "oscillator"
    /\ pressedKeys = {}
    /\ DOMAIN activePianoNotes # {}

\* C3: stopAll releases every registered voice, leaves both registries
\* empty and lets no exception out, also when the release of a voice fails.
C3_StopAllContained ==
    [][StopAllCall
       => /\ activePianoNotes' = << >>
          /\ activeOscillators' = << >>
          /\ ~uncaught'
          /\ \A i \in AllRegistered :
                /\ voices'[i].releases = voices[i].releases + 1
                /\ voices'[i].by = "stopAllNotes"]_vars

\* stopAll has released two voices: the release of the first failed and
\* took the emergency path, the second was released normally.
C3_FailureContained ==
    /\ AllRegistered = {}
    /\ Len(voices) = 2
    /\ voices[1].by = "stopAllNotes" /\ voices[1].path = "emergency"
    /\ voices[2].by = "stopAllNotes" /\ voices[2].path = "normal"
    /\ voices[2].teardown = "pending"

\* C4: stopAll and emergencyStop leave the loop recorder (recording flag,
\* buffer, playback source, playing flag) and the repeater (active flag,
\* timer, interval, last sound) as they were.
C4_StopAllFrame ==
    [][StopAllCall
       => UNCHANGED <<isRecording, recordedBuffer, sourceNodeRef, isPlaying,
                      isRepeating, repeatTimers, repeatIntervalRef, repeatSpeed,
                      lastPlayedSound>>]_vars

\* Stop All has just muted the master gain and released a voice while the
\* repeater and the loop are running.
C4_StoppedBesideRunning ==
    /\ stoppedBeside
    /\ masterGain = 0
    /\ restoreTimers # << >>
    /\ \E i \in DOMAIN voices : voices[i].by = "stopAllNotes"
    /\ isRepeating /\ repeatTimers # {}
    /\ isPlaying /\ sourceNodeRef # 0

\* C5, as stated: every scheduled oscillator stop is at most 3.0 s after
\* the release was requested.
C5_StopWithin3s ==
    \A i \in DOMAIN voices : voices[i].oscStop <= 300

\* C5, amended: the release ramp ends at most 3.0 s (piano) or 2.0 s
\* (oscillator) after the release was requested, and every scheduled
\* oscillator stop is at most 0.1 s after the end of the ramp.
C5_StopWithinClampAndGuard ==
    \A i \in DOMAIN voices :
        /\ voices[i].rampEnd <= IF voices[i].mode = "piano"
                                THEN PianoReleaseCeiling ELSE OscReleaseCeiling
        /\ voices[i].oscStop <= IF voices[i].mode = "piano"
                                THEN voices[i].rampEnd + StopGuard ELSE voices[i].rampEnd
        /\ voices[i].oscStop <= 310

\* A piano voice released at release = 3.0 s: its oscillators stop at 3.1 s.
C5_StopAtThreePointOne ==
    \E i \in DOMAIN voices :
        /\ voices[i].mode = "piano"
        /\ voices[i].path = "normal"
        /\ voices[i].rampEnd = 300
        /\ voices[i].oscStop = 310

\* C6: a piano voice has the noise transient iff its frequency is below
\* 1000 Hz, and a released voice without it hands no noise node to the
\* release path.
C6_NoiseBelow1000 ==
    \A i \in DOMAIN voices :
        voices[i].mode = "piano"
        => /\ voices[i].noise <=> voices[i].frequency < 100000
           /\ voices[i].noiseHanded => voices[i].noise
           /\ voices[i].noiseStop # None => voices[i].noise
           /\ (voices[i].releases > 0 /\ voices[i].noise) => voices[i].noiseHanded

\* Two released piano voices: one at exactly 1000 Hz without noise, one
\* below 1000 Hz whose noise node was handed to the release path.
C6_BoundaryVoices ==
    /\ \E i \in DOMAIN voices :
          /\ voices[i].mode = "piano" /\ voices[i].frequency = 100000
          /\ voices[i].releases = 1 /\ voices[i].path = "normal"
          /\ ~voices[i].noise /\ ~voices[i].noiseHanded
    /\ \E j \in DOMAIN voices :
          /\ voices[j].mode = "piano" /\ voices[j].frequency = 98776
          /\ voices[j].releases = 1 /\ voices[j].noise /\ voices[j].noiseHanded

\* C7: while no sound has been played the repeater stays idle and no timer
\* is ever created, whatever is toggled; a repeating repeater has a last
\* sound.
C7_ToggleNeedsSound ==
    /\ isRepeating => lastPlayedSound # ""
    /\ lastPlayedSound = ""
       => /\ ~isRepeating
          /\ repeatTimers = {}
          /\ repeatIntervalRef = 0
          /\ timersCreated = 0

\* toggleRepeat has been called with no sound played.
C7_ToggledSilent ==
    /\ toggled
    /\ lastPlayedSound = ""
    /\ ~isRepeating

\* C8: a tick of the repeater fires the sound that is the last played one
\* when the tick happens.
C8_TickFiresLatest ==
    [][\A t \in repeatTimers : RepeatTick(t) => t.sound = lastPlayedSound]_vars

\* The repeater is live with a timer that holds another sound than the
\* last played one.
C8_TimerHoldsOldSound ==
    /\ isRepeating
    /\ \E t \in repeatTimers : t.sound # lastPlayedSound

\* C9: a new speed while repeating replaces the timer, in the same step, by
\* one new timer of that period and the repeater stays active; while idle
\* it only stores the speed; a toggle that starts the repeater uses the
\* stored speed.
C9_SpeedReplacesTimer ==
    /\ [][\A ms \in AllSpeeds :
             UpdateRepeatSpeed(ms)
             => /\ repeatSpeed' = ms
                /\ isRepeating' = isRepeating
                /\ isRepeating
                   => /\ \E t \in repeatTimers' :
                            /\ repeatTimers' = {t}
                            /\ t.period = ms
                            /\ t.id \notin {u.id : u \in repeatTimers}
                            /\ repeatIntervalRef' = t.id
                /\ ~isRepeating => repeatTimers' = repeatTimers]_vars
    /\ [][(ToggleRepeat /\ ~isRepeating /\ isRepeating')
          => \E t \in repeatTimers' : repeatTimers' = {t} /\ t.period = repeatSpeed]_vars

\* The live timer was made by a speed change while repeating, at a speed
\* other than the default.
C9_TimerReplaced ==
    /\ isRepeating
    /\ repeatSpeed # DefaultRepeatSpeed
    /\ \E t \in repeatTimers :
          /\ repeatTimers = {t}
          /\ t.by = "updateRepeatSpeed"
          /\ t.period = repeatSpeed

\* C10: the repeater is active exactly when one timer is live, never are
\* two timers live, a toggle while active cancels the timer, and only an
\* active repeater ticks.
C10_OneLiveTimer ==
    /\ [](Cardinality(repeatTimers) <= 1)
    /\ [](isRepeating <=> Cardinality(repeatTimers) = 1)
    /\ [][(ToggleRepeat /\ isRepeating) => (~isRepeating' /\ repeatTimers' = {})]_vars
    /\ [][(\E t \in repeatTimers : RepeatTick(t)) => isRepeating]_vars

\* The repeater was started and toggled off: idle, its timer cancelled.
C10_ToggledOff ==
    /\ toggled
    /\ ~isRepeating
    /\ timersCreated > 0
    /\ repeatTimers = {}


\* C11: a recording that is not stopped by hand is stopped by the interval
\* at the 10 s ceiling: while recording, the interval is set and has measured
\* less than 10 s; the firing that measures 10 s stops the recorder, clears
\* the interval and the recording flag; and every recording ends.
C11_AutoStopAtCeiling ==
    /\ [](isRecording => /\ recordingTimerRef
                         /\ elapsed < RecordingCeiling
                         /\ recordings[mediaRecorderRef].state = "recording")
    /\ [][(RecordingTick /\ elapsed + RecordingTickPeriod >= RecordingCeiling)
            => /\ ~isRecording'
               /\ ~recordingTimerRef'
               /\ recordings'[mediaRecorderRef].state = "decoding"]_vars
    /\ (isRecording ~> ~isRecording)

\* A recording was stopped by the interval, and nothing runs.
C11_StoppedByTimer ==
    /\ \E i \in DOMAIN recordings : recordings[i].stoppedBy = "timer"
    /\ ~isRecording
    /\ ~recordingTimerRef

\* C12: starting a recording discards the playback source of the previous
\* buffer: while a recording is in progress no loop playback source is
\* active and the recorder is not playing.
C12_RecordingDiscardsPlayback ==
    isRecording => (~isPlaying /\ sourceNodeRef = 0 /\ liveSources = {})

\* Record New was pressed while the loop played; the recording
\* runs and the source of the previous buffer still plays.
C12_RecordingOverLoop ==
    /\ isRecording
    /\ isPlaying
    /\ \E x \in liveSources : x.id = sourceNodeRef /\ x.buffer = recordedBuffer

\* C13: at most one loop playback source is started and connected at any
\* time, and it is the one sourceNodeRef holds: every earlier source was
\* stopped and disconnected before the next one started.
C13_OneLiveSource ==
    /\ Cardinality(liveSources) <= 1
    /\ \A x \in liveSources : x.id = sourceNodeRef
    /\ (sourceNodeRef # 0 => \E x \in liveSources : x.id = sourceNodeRef)

\* A second source plays, after the first one was stopped.
C13_SecondSourceAlone ==
    /\ sourcesCreated = 2
    /\ sourceNodeRef = 2
    /\ isPlaying
    /\ \A x \in liveSources : x.id = 2

\* C14: stopLoop is total and idempotent: in every state it raises no error
\* and leaves no source, playing false and the buffer as it was; applied
\* again it changes nothing more; and with nothing playing it changes
\* nothing at all.
C14_StopLoopIdempotent ==
    LET once == stopLoopOn(LoopPlayback)
        twice == stopLoopOn(once.state)
    IN  /\ ~once.threw
        /\ ~twice.threw
        /\ once.state.sourceNodeRef = 0
        /\ once.state.liveSources = {}
        /\ ~once.state.isPlaying
        /\ once.state.recordedBuffer = recordedBuffer
        /\ twice.state = once.state
        /\ (sourceNodeRef = 0 /\ ~isPlaying => once.state = LoopPlayback)

\* A loop was played and stopped, the buffer is kept, and
\* stopLoop finds nothing to stop.
C14_StoppedWithBuffer ==
    /\ sourcesCreated >= 1
    /\ sourceNodeRef = 0
    /\ ~isPlaying
    /\ recordedBuffer # 0
    /\ stopLoopOn(LoopPlayback).state = LoopPlayback

\* C15: when the decode of a finished recording fails, the recorder is left
\* without a buffer, whether or not an earlier recording had produced one.
C15_DecodeFailureClearsBuffer ==
    [][\A i \in DOMAIN recordings :
          DecodeSettles(i, FALSE) => recordedBuffer' = 0]_vars

\* The second recording could not be decoded and the buffer of
\* the first is still the recorder's buffer.
C15_OldBufferKept ==
    /\ Len(recordings) = 2
    /\ recordings[2].state = "undecoded"
    /\ recordedBuffer = 1

\* C16: once a recording was stopped and its decode has settled, the capture
\* sink of that recording is detached from the master gain, and a recording
\* in progress has its own sink attached.
C16_OwnSinkDetached ==
    /\ \A i \in DOMAIN recordings :
          recordings[i].state \in {"done", "undecoded"} => i \notin sinks
    /\ (isRecording => mediaRecorderRef \in sinks)

\* The second recording started while the first was decoding;
\* the first decode has settled, its sink is still attached and the sink of
\* the recording in progress is detached.
C16_WrongSinkDetached ==
    /\ Len(recordings) = 2
    /\ recordings[1].state \in {"done", "undecoded"}
    /\ recordings[2].state = "recording"
    /\ isRecording
    /\ mediaRecorderRef = 2
    /\ 1 \in sinks
    /\ 2 \notin sinks

\* C17: percussion hits are independent one-shots: a hit adds nodes of its
\* own, leaves the nodes of every earlier hit as they were (neither stopped
\* nor scheduled again), and leaves the melodic voices and both registries
\* unchanged.
C17_HitsIndependent ==
    [][Len(hits') > Len(hits)
         => /\ Len(hits') = Len(hits) + 1
            /\ \A i \in DOMAIN hits : hits'[i] = hits[i]
            /\ hits'[Len(hits')].nodes \in {"sounding", "none"}
            /\ voices' = voices
            /\ activePianoNotes' = activePianoNotes
            /\ activeOscillators' = activeOscillators]_vars

\* Two hits of the same pad sound together while a melodic
\* voice is registered.
C17_TwoHitsSounding ==
    /\ Len(hits) = 2
    /\ hits[1].sound = hits[2].sound
    /\ hits[1].nodes = "sounding"
    /\ hits[2].nodes = "sounding"
    /\ RegisteredIds("C4") # {}

\* C18: an error thrown while a recipe builds its nodes is caught inside that
\* playDrum call: nothing escapes the handler, the registries and the
\* repeater are left as they were, and every hit either was built and
\* sounds or was caught and built nothing.
C18_RecipeErrorContained ==
    /\ [](\A i \in DOMAIN hits :
            /\ hits[i].outcome \in {"built", "caught"}
            /\ (hits[i].outcome = "caught" <=> hits[i].nodes = "none"))
    /\ [][(Len(hits') > Len(hits) /\ hits'[Len(hits')].nodes = "none")
            => /\ hits'[Len(hits')].outcome = "caught"
               /\ uncaught' = uncaught
               /\ activePianoNotes' = activePianoNotes
               /\ activeOscillators' = activeOscillators
               /\ isRepeating' = isRepeating
               /\ repeatIntervalRef' = repeatIntervalRef
               /\ repeatTimers' = repeatTimers]_vars

\* With the repeater running and a voice registered, a recipe
\* threw and the next hit was built and sounds.
C18_BuiltAfterCaught ==
    /\ Len(hits) = 2
    /\ hits[1].outcome = "caught"
    /\ hits[2].outcome = "built"
    /\ hits[2].nodes = "sounding"
    /\ isRepeating
    /\ repeatTimers # {}
    /\ RegisteredIds("C4") # {}

\* C19: a volume change made while notes sustain sets the gain of the shared
\* output stage to the new value in the same step, with no noteOn, and
\* leaves the voices and both registries as they were; a filter change sets
\* the frequency of the shared filter in the same way.
C19_KnobsActImmediately ==
    /\ [][\A v \in Volumes :
            (SetVolume(v) /\ AllRegistered # {})
               => /\ masterGain' = v
                  /\ voices' = voices
                  /\ activePianoNotes' = activePianoNotes
                  /\ activeOscillators' = activeOscillators]_vars
    /\ [][\A f \in FilterFreqs :
            (SetFilterFreq(f) /\ AllRegistered # {})
               => /\ filterFrequency' = f
                  /\ voices' = voices
                  /\ activePianoNotes' = activePianoNotes
                  /\ activeOscillators' = activeOscillators]_vars

\* A piano voice is registered, which no noteOn can construct
\* at volume 0, and the volume and the filter were turned away from their
\* defaults: the shared gain and filter hold the new values.
C19_TurnedWhileSustaining ==
    /\ activePianoNotes # << >>
    /\ audioSettings.volume = 0
    /\ masterGain = 0
    /\ restoreTimers = << >>
    /\ audioSettings.filterFreq # DefaultFilterFreq
    /\ filterFrequency = audioSettings.filterFreq

\* C20: a noteOn that replaces a registered voice of the same note has
\* silenced that voice before the envelope of the new voice starts: at the
\* instant of the call the gain ramp of the prior voice has ended and its
\* sources have stopped.
C20_ReplacedBeforeNewEnvelope ==
    [][\A n \in Notes :
          (/\ RegisteredIds(n) # {}
           /\ \E f \in Frequencies, x \in Faults : PlayNote(f, n, x)
           /\ Len(voices') > Len(voices))
          => \A i \in RegisteredIds(n) : /\ voices'[i].rampEnd = 0
                                         /\ voices'[i].oscStop = 0]_vars

\* After a retrigger at the default release the new voice is
\* registered and sounds while the prior voice of the same note still ramps
\* down for 1.5 s and stops 0.1 s later.
C20_TailUnderNewVoice ==
    /\ Len(voices) = 2
    /\ voices[1].note = voices[2].note
    /\ voices[1].mode = "piano"
    /\ voices[1].by = "stopNote"
    /\ voices[1].path = "normal"
    /\ voices[1].rampEnd = DefaultRelease
    /\ voices[1].oscStop = DefaultRelease + StopGuard
    /\ voices[1].teardown = "pending"
    /\ voices[2].releases = 0
    /\ RegisteredIds(voices[2].note) = {2}

\* C21: when the deferred teardown of a released voice fires, also after a
\* later noteOn for the same note, it disconnects the nodes of that voice
\* only: every other voice, the registered one included, is as it was, no
\* registry entry is added, removed or replaced, and a registered voice is
\* never disconnected.
C21_TeardownOwnNodesOnly ==
    /\ [](\A i \in AllRegistered : voices[i].teardown = "none")
    /\ [][\A i \in DOMAIN voices :
            Teardown(i) => /\ voices'[i].teardown = "done"
                           /\ \A j \in DOMAIN voices \ {i} : voices'[j] = voices[j]
                           /\ activePianoNotes' = activePianoNotes
                           /\ activeOscillators' = activeOscillators]_vars

\* The teardown of the first voice has fired after the retrigger: the second
\* voice of the same note is registered and connected.
C21_TeardownAfterRetrigger ==
    /\ Len(voices) = 2
    /\ voices[1].note = voices[2].note
    /\ voices[1].by = "stopNote"
    /\ voices[1].teardown = "done"
    /\ voices[2].teardown = "none"
    /\ voices[2].releases = 0
    /\ RegisteredIds(voices[2].note) = {2}

\* C22: every voice that was released (by noteOff, a retrigger or stopAll) is
\* eventually destroyed: its graph is disconnected, in both sound modes and
\* also after the emergency path, provided pending timeouts fire.
C22_ReleasedEventuallyDisconnected ==
    \A i \in 1..MaxVoices :
        (i \in DOMAIN voices /\ voices[i].releases > 0)
            ~> (i \in DOMAIN voices /\ voices[i].teardown = "done")

\* A piano voice released through the emergency path by a retrigger: silent,
\* with no teardown pending, and never disconnected.
C22_NeverDisconnected ==
    /\ Len(voices) = 2
    /\ voices[1].mode = "piano"
    /\ voices[1].by = "stopNote"
    /\ voices[1].path = "emergency"
    /\ voices[1].releases = 1
    /\ voices[1].teardown = "none"
    /\ \A i \in DOMAIN voices : voices[i].teardown # "pending"

\* C23: the pad-active signal is a pulse: once the 150 ms timeout of every
\* playDrum call has fired, no pad is shown active.
C23_PadPulseClears ==
    padTimers = << >> => activePad = ""

\* A pad was hit once, its timeout has fired, and the pad is still shown
\* active.
C23_PadStaysActive ==
    /\ padTimers = << >>
    /\ activePad = "kick"
    /\ lastPlayedSound = "kick"
    /\ ~isRepeating

\* C24: whatever the knobs are dragged to, volume stays in [0, 1], attack in
\* [0.01 s, 1 s] and release in [0.01 s, 3 s].
C24_KnobsStayInRange ==
    /\ audioSettings.volume \in 0..100
    /\ audioSettings.attack \in 1..100
    /\ audioSettings.release \in 1..300

\* The release knob is being dragged from the default 1.5 s to more than its
\* range above it and rests at 3 s, the volume at 0 and the attack at 1 s.
C24_DraggedPastTheEnds ==
    /\ knob = [name |-> "release", start |-> DefaultRelease]
    /\ audioSettings.release = 300
    /\ audioSettings.volume = 0
    /\ audioSettings.attack = 100

\* C25: after any sequence of speed changes, by the 50 ms steps and by the
\* presets, the repeat interval is within [50, 1000] ms, and every live
\* repeater timer runs at the current interval.
C25_SpeedInRangeAndLive ==
    /\ repeatSpeed \in MinRepeatSpeed..MaxRepeatSpeed
    /\ \A t \in repeatTimers : t.period = repeatSpeed

\* The repeater runs at the slowest interval, reached with the 50 ms step
\* while it was repeating.
C25_SlowestWhileRepeating ==
    /\ isRepeating
    /\ repeatSpeed = MaxRepeatSpeed
    /\ \E t \in repeatTimers : /\ t.id = repeatIntervalRef
                               /\ t.period = MaxRepeatSpeed
                               /\ t.by = "updateRepeatSpeed"

\* C26: a release on the normal path, made at time t with clamped release
\* time r, ends the gain ramp at t + r, stops the oscillators at t + r + 0.1 s,
\* stops a noise transient at t + 0.1 s and runs the teardown at t + r + 0.2 s;
\* so the ramp end, the oscillator stop and the teardown follow in this order.
C26_ReleaseSchedule ==
    [][\A i \in DOMAIN voices :
          (/\ voices[i].mode = "piano"
           /\ voices'[i].releases > voices[i].releases
           /\ voices'[i].path = "normal")
          => LET r == Min(synthSettings.release, PianoReleaseCeiling)
                 w == voices'[i]
             IN  /\ w.rampEnd = r
                 /\ w.oscStop = r + 10
                 /\ (w.noise => w.noiseStop = 10)
                 /\ w.teardown = "pending"
                 /\ w.teardownAt = r + 20
                 /\ w.rampEnd <= w.oscStop
                 /\ w.oscStop <= w.teardownAt]_vars

\* A voice with a noise transient released at r = 1.5 s: ramp end at 1.5 s,
\* oscillator stop at 1.6 s, noise stop at 0.1 s, teardown pending for 1.7 s.
C26_ReleasedAtDefault ==
    \E i \in DOMAIN voices :
        /\ voices[i].mode = "piano"
        /\ voices[i].noise
        /\ voices[i].path = "normal"
        /\ voices[i].rampEnd = 150
        /\ voices[i].oscStop = 160
        /\ voices[i].noiseStop = 10
        /\ voices[i].teardown = "pending"
        /\ voices[i].teardownAt = 170

\* C27: when a step of stopPianoSound throws (the gain automation, the stop
\* of an oscillator or of the noise node), the emergency path runs: the gain
\* of the voice is forced to 0 and every oscillator and the noise node are
\* stopped at the time of the call, and no exception leaves the handler.
C27_EmergencyPathOnAnyThrow ==
    [][\A x \in StopFaults \ {"none"} :
          (StopNote("B5", x) /\ "B5" \in DOMAIN activePianoNotes)
          => LET w == voices'[activePianoNotes["B5"]]
             IN  /\ w.path = "emergency"
                 /\ w.ramp = "zero"
                 /\ w.rampEnd = 0
                 /\ w.oscStop = 0
                 /\ w.unstopped = 0
                 /\ (w.noise => w.noiseStop = 0)
                 /\ ~uncaught']_vars

\* A voice whose release failed in the emergency path as well: it is no
\* longer registered, nothing was scheduled for it and its sources run on.
C27_SourcesLeftRunning ==
    \E i \in DOMAIN voices :
        /\ voices[i].path = "emergency failed"
        /\ voices[i].releases = 1
        /\ voices[i].oscStop = None
        /\ voices[i].rampEnd = None
        /\ voices[i].teardown = "none"
        /\ i \notin AllRegistered

\* C28: stopPianoSound chooses the ramp by the clamped release time: below
\* 0.1 s the gain ramps linearly to exactly 0, at 0.1 s or above it ramps
\* exponentially to the floor 0.0001, never to 0; either ramp ends at the
\* time of the call plus the clamped release.
C28_RampByRelease ==
    [][\A i \in DOMAIN voices :
          (/\ voices[i].mode = "piano"
           /\ voices'[i].releases > voices[i].releases
           /\ voices'[i].path = "normal")
          => LET r == Min(synthSettings.release, 300)
                 w == voices'[i]
             IN  /\ (r < 10 => w.ramp = "linear" /\ w.rampTarget = 0)
                 /\ (r >= 10 => w.ramp = "exponential" /\ w.rampTarget = 1)
                 /\ w.rampEnd = r]_vars

\* One voice released at 0.09 s, ramping linearly to 0, and one released at
\* exactly 0.1 s, ramping exponentially to the floor.
C28_BothSidesOfThreshold ==
    /\ Len(voices) = 2
    /\ voices[1].rampEnd = 9
    /\ voices[1].ramp = "linear"
    /\ voices[1].rampTarget = 0
    /\ voices[2].rampEnd = 10
    /\ voices[2].ramp = "exponential"
    /\ voices[2].rampTarget = 1

\* C29: a release on the normal path of stopPianoSound starts the ramp-down
\* from the gain the voice has at that instant: a part of the volume in
\* proportion to the time elapsed while the attack lasts, a value between
\* the volume and 0.7 x volume during the decay, 0.7 x volume afterwards;
\* so the gain set at the release equals the gain just before it.
C29_RampFromCurrentGain ==
    [][\A i \in DOMAIN voices :
          (/\ voices[i].mode = "piano"
           /\ voices[i].releases = 0
           /\ voices'[i].releases = 1
           /\ voices'[i].path = "normal")
          => LET e == voices[i].envelope
                 t == voices[i].age
                 g == voices'[i].rampFrom
             IN  /\ g = gainAt(e, t)
                 /\ (t < e.attack => g * e.attack = e.volume * 100 * t)
                 /\ (t = e.attack => g = e.volume * 100)
                 /\ (t > e.attack /\ t < e.attack + 10
                       => g < e.volume * 100 /\ g > e.volume * 70)
                 /\ (t >= e.attack + 10 => g = e.volume * 70)]_vars

\* A voice of volume 0.5 and attack 0.1 s released 0.05 s after its start:
\* the ramp-down starts from 0.25.
C29_ReleasedMidAttack ==
    \E i \in DOMAIN voices :
        /\ voices[i].mode = "piano"
        /\ voices[i].path = "normal"
        /\ voices[i].envelope = [volume |-> 50, attack |-> 10]
        /\ voices[i].age = 5
        /\ voices[i].rampFrom = 2500

C31_HitsFreeRunToTheirStop ==
    [][\A i \in DOMAIN hits' :
          LET h == hits'[i]
              last == CHOOSE t \in {h.sources[j].stop : j \in DOMAIN h.sources} :
                         \A j \in DOMAIN h.sources : h.sources[j].stop <= t
          IN  h.outcome = "built"
              => /\ h.sources # << >>
                 /\ \A j \in DOMAIN h.sources :
                       /\ h.sources[j].stop # None
                       /\ h.sources[j].stop > h.sources[j].start
                       /\ h.sources[j].stop <= 2000
                 /\ (h.sound = "siren" => last = 2000)
                 /\ (h.nodes = "sounding" => h.age < last)
                 /\ (h.nodes = "ended" => h.age >= last)
                 /\ (i \in DOMAIN hits /\ hits[i].nodes = "sounding"
                        /\ h.nodes = "ended"
                       => UNCHANGED <<activePad, padTimers, activeKit,
                                      lastPlayedSound>>)]_vars

\* A siren hit, with its two oscillators and its LFO, has run its 2 s and
\* ended.
C31_SirenRanTwoSeconds ==
    \E i \in DOMAIN hits :
        /\ hits[i].sound = "siren"
        /\ hits[i].outcome = "built"
        /\ Len(hits[i].sources) = 3
        /\ hits[i].nodes = "ended"
        /\ hits[i].age = 2000

\* C32: in every state the registry of the sound mode that is not selected
\* is empty, so that no note has a voice in both registries.
C32_OtherRegistryEmpty ==
    /\ (soundMode = "piano" => activeOscillators = << >>)
    /\ (soundMode = "oscillator" => activePianoNotes = << >>)
    /\ DOMAIN activePianoNotes \cap DOMAIN activeOscillators = {}

\* One note has a piano voice and an oscillator voice registered at once.
C32_NoteInBothRegistries ==
    \E n \in Notes :
        /\ n \in DOMAIN activePianoNotes
        /\ n \in DOMAIN activeOscillators
        /\ voices[activePianoNotes[n]].releases = 0
        /\ voices[activeOscillators[n]].releases = 0

\* C33: whatever noteOn, noteOff, stopAll, mode switches and emergency
\* stops have run, no voice has been released more than once, and a voice
\* that is registered has not been released and its nodes have not been
\* disconnected.
C33_ReleasedOnceAndOnlyWhenRemoved ==
    \A i \in DOMAIN voices :
        /\ voices[i].releases <= 1
        /\ (i \in AllRegistered
              => /\ voices[i].releases = 0
                 /\ voices[i].by = "none"
                 /\ voices[i].teardown = "none")

\* C4 was struck twice and B5 was never touched: the first voice of C4 was
\* released once by the retrigger and disconnected, the second is registered
\* and untouched.
C33_RetriggeredAndTornDown ==
    /\ Len(voices) = 2
    /\ voices[1].note = "C4"
    /\ voices[1].releases = 1
    /\ voices[1].teardown = "done"
    /\ voices[2].note = "C4"
    /\ voices[2].releases = 0
    /\ 2 \in AllRegistered

\* C34: with notes played from the computer keyboard only, whenever every
\* key is up no voice is registered in either registry, whatever mode
\* switches came between the key-downs and the key-ups.
C34_AllKeysUpNothingRegistered ==
    pressedKeys = {} => AllRegistered = {}

\* Every key is up and a voice that a key-down started is still registered,
\* never released, in the registry of the mode that is not selected.
C34_KeyUpMissedItsVoice ==
    /\ pressedKeys = {}
    /\ \E i \in AllRegistered :
          /\ voices[i].releases = 0
          /\ voices[i].mode # soundMode

\* C35: when the 100 ms restore timer of emergencyStop fires, the master
\* gain is set to the volume setting of that moment, also when the volume
\* knob was turned since the emergencyStop call.
C35_RestoreToCurrentVolume ==
    [][(restoreTimers # << >> /\ restoreTimers' = Tail(restoreTimers))
          => masterGain' = audioSettings'.volume]_vars

\* The volume was turned to 0 while the master gain was muted; the restore
\* timer has fired and the master gain is at 0.5.
C35_RestoredToOldVolume ==
    /\ restoreTimers = << >>
    /\ audioSettings.volume = 0
    /\ masterGain = DefaultVolume

\* C36: when the decodes of recording A and of the later recording B have
\* both succeeded, in whichever order, the loop buffer holds B's audio.
C36_LatestRecordingWins ==
    [][(/\ recordings' # recordings
        /\ Len(recordings') = 2
        /\ recordings'[1].state = "done"
        /\ recordings'[2].state = "done")
          => recordedBuffer' = 2]_vars

\* Both recordings were stopped with the button and decoded, and the loop
\* buffer holds the audio of the first.
C36_OlderRecordingInBuffer ==
    /\ Len(recordings) = 2
    /\ recordings[1] = [state |-> "done", stoppedBy |-> "button"]
    /\ recordings[2] = [state |-> "done", stoppedBy |-> "button"]
    /\ recordedBuffer = 1
    /\ ~isRecording

\* C37: from clearRecording on, as long as no recording started after it has
\* been decoded, the loop buffer is empty and nothing plays; the decode of a
\* recording started before the clear does not fill the buffer again.
C37_ClearedUntilNewRecording ==
    (/\ clearedAt # None
     /\ \A i \in DOMAIN recordings :
           i > clearedAt => recordings[i].state # "done")
      => /\ recordedBuffer = 0
         /\ ~isPlaying
         /\ sourceNodeRef = 0

\* The second recording was stopped before Clear was clicked and decoded
\* after it: the loop buffer holds its audio, and no recording was started
\* since the clear.
C37_PendingDecodeCameBack ==
    /\ clearedAt = 2
    /\ Len(recordings) = 2
    /\ recordings[2].state = "done"
    /\ recordedBuffer = 2

\* C38: in every state of the loop recorder the playing flag is true
\* exactly when a playback source is held, and then there is a buffer:
\* a source that failed to start leaves the recorder not playing, and
\* clearRecording stops the playback before it drops the buffer.
C38_PlayingIffSource ==
    /\ (isPlaying <=> sourceNodeRef # 0)
    /\ (isPlaying => recordedBuffer # 0)
    /\ (sourceNodeRef # 0 => \E x \in liveSources : x.id = sourceNodeRef)

\* The first source failed to start or was stopped, the second one plays the
\* buffer, after a clear and a new recording.
C38_PlayingAfterClear ==
    /\ clearedAt = 1
    /\ recordedBuffer = 2
    /\ sourcesCreated = 2
    /\ sourceNodeRef = 2
    /\ isPlaying

\* C39: with the audio context initialised, a piano-mode noteOn made with
\* the mouse ends with a voice registered for its note, never released, at
\* every volume of the knob's range, 0 included.
C39_NoteOnAlwaysRegisters ==
    [][(audioContext /\ soundMode = "piano" /\ PlayNote(26163, "C4", "none"))
          => /\ "C4" \in DOMAIN activePianoNotes'
             /\ voices'[activePianoNotes'["C4"]].releases = 0]_vars

\* A noteOn has run at volume 0 (the synthesizer took the settings over) and
\* no voice was ever built.
C39_SilentKnobNoVoice ==
    /\ audioContext
    /\ soundMode = "piano"
    /\ audioSettings.volume = 0
    /\ synthSettings.volume = 0
    /\ voices = << >>
    /\ activePianoNotes = << >>

====
